---- MODULE Spec2Model ----
(***************************************************************************)
(* go-datarepository: the DataRepository contract and its two backends,    *)
(* MemoryRepository (datarepository.memory.go) and RedisRepository         *)
(* (datarepository.redis.go).                                              *)
(*                                                                         *)
(* Strings are sequences of one-character strings, so that joining,        *)
(* splitting and pattern matching are computed and not assumed.            *)
(* Time is a discrete clock `now`; a time.Duration is a number of ticks.   *)
(***************************************************************************)
EXTENDS Integers, Sequences, FiniteSets, TLC

\* ------------------------------------------------------------------ bounds
MaxTime == 3        \* the clock runs over 0..MaxTime
MaxTTL == 2         \* durations passed to SetExpiration / AcquireLock: 0..MaxTTL
MaxCount == 3       \* AtomicIncrement is called while the counter is below this
NumProcs == 2       \* concurrent callers
NumDocs == 2        \* distinct entity values passed to Create/Update/Upsert
MaxSubs == 2        \* Subscribe calls
MaxMsgs == 2        \* Publish calls
SinkBuffer == 1     \* the buffer of a subscriber's Go channel (100 in the source)
\* the largest offset and the largest limit handed to Search
MaxOffset == 1
MaxLimit == 2
\* the largest value of Go's int, scaled down (2^63 - 1 in the source)
MaxInt == 7

Procs == 1..NumProcs
TTLs == 0..MaxTTL

\* ----------------------------------------------------------------- strings
DefaultKeyPrefix == <<"a", "p", "p">>
DefaultKeySeparator == <<":">>
KeyPartLock == <<"l", "o", "c", "k">>
KeyPartPubSubChannel == <<"c", "h", "a", "n", "n", "e", "l">>

\* RedisIdentifier{EntityPrefix, ID}
RedisIdentifier(entityPrefix, id) ==
    [kind |-> "RedisIdentifier", EntityPrefix |-> entityPrefix, ID |-> id]
\* SimpleIdentifier(token)
SimpleIdentifier(token) == [kind |-> "SimpleIdentifier", EntityPrefix |-> <<>>, ID |-> token]
NoId == [kind |-> "none", EntityPrefix |-> <<>>, ID |-> <<>>]
\* the identifiers the callers use
Ids == {RedisIdentifier(<<"u">>, <<"1">>), RedisIdentifier(<<"u">>, <<"2">>)}
\* the patterns handed to List
Patterns == {RedisIdentifier(<<"u">>, <<"*">>), RedisIdentifier(<<"u">>, <<"1">>)}

\* RedisIdentifier.String(): strings.Join([EntityPrefix, ID], ":");
\* SimpleIdentifier.String(): the token
String(identifier) ==
    IF identifier.kind = "RedisIdentifier"
    THEN identifier.EntityPrefix \o DefaultKeySeparator \o identifier.ID
    ELSE identifier.ID

\* ------------------------------------------------------------------ values
\* A stored value: an entity document (numbered) or an int64 counter.
Doc(d) == [t |-> "doc", n |-> d]
Int64(c) == [t |-> "int64", n |-> c]
NoValue == [t |-> "none", n |-> 0]
Docs == {Doc(d) : d \in 1..NumDocs}

\* ---------------------------------------------------------------- Go maps
\* faulty variant: an entry that exists is kept, not overwritten
MapSetKeep(m, k, v) ==
    IF k \in DOMAIN m THEN m ELSE [x \in (DOMAIN m) \cup {k} |-> IF x = k THEN v ELSE m[x]]

\* m[k] = v
MapSet(m, k, v) == [x \in (DOMAIN m) \cup {k} |-> IF x = k THEN v ELSE m[x]]
\* delete(m, k): a no-op when k is absent (or m is nil)
MapDelete(m, k) == [x \in (DOMAIN m) \ {k} |-> m[x]]
EmptyMap == [x \in {} |-> NoValue]

\* the history variables are updated with their own operators
HistSet(h, k, v) == [x \in (DOMAIN h) \cup {k} |-> IF x = k THEN v ELSE h[x]]
HistDrop(h, k) == [x \in (DOMAIN h) \ {k} |-> h[x]]
HistDropAll(h, ks) == [x \in (DOMAIN h) \ ks |-> h[x]]

VARIABLES
    backend,      \* "memory" | "redis": the backend the factory constructed
    now,          \* time.Now()
    crashed,      \* the process died (fatal error: concurrent map access)
    pc,           \* per caller: the call in flight, or idle
    last,         \* the event of the last step: a call's outcome, a tick, a sweep
    data,         \* MemoryRepository.data
    locks,        \* MemoryRepository.locks
    expiries,     \* MemoryRepository.expiries
    store,        \* the remote store's keyspace: key -> value
    storeTTL,     \* the remote store's expire table: key -> absolute expiry
    lastWritten,  \* history, per identifier: value of the latest successful Create/Update
    ttlDeadline,  \* history, per identifier: deadline of the latest SetExpiration on the entity
    incrLog,      \* history, per identifier: AtomicIncrement results since it was fresh
    grants,       \* history, per identifier: AcquireLock calls that returned true
    prefix,       \* RedisRepository.prefix
    separator,    \* RedisRepository.separator
    wire,         \* history: the commands the last step sent to the remote store
    channels,     \* MemoryRepository.channels: channel name -> sequence of sinks
    sinks,        \* the Go channels made by Subscribe, with their context and routine
    published,    \* history: the number of Publish calls so far (the message ids)
    repositoryFactories,  \* the registry: backend name -> constructor
    factoryMutex, \* the registry's sync.RWMutex: its writer and its readers
    fpc,          \* per caller: the factory call in flight, or idle
    completed,    \* history, per name: constructor of the latest registration that returned
    twin,         \* history: a call given to both backends in turn, and the first outcome
    holders       \* history, per identifier followed: grants whose caller has not called ReleaseLock

vars == <<backend, now, crashed, pc, last, data, locks, expiries, store, storeTTL,
          lastWritten, ttlDeadline, incrLog, grants,
          prefix, separator, wire, channels, sinks, published,
          repositoryFactories, factoryMutex, fpc, completed, twin, holders>>
factoryVars == <<repositoryFactories, factoryMutex, fpc, completed>>
keyVars == <<prefix, separator>>
cfgVars == <<keyVars, factoryVars, twin, holders>>
psVars == <<channels, sinks, published>>
memVars == <<data, locks, expiries>>
redisVars == <<store, storeTTL>>
histVars == <<lastWritten, ttlDeadline, incrLog, grants>>

Idle == [op |-> "idle", id |-> NoId, v |-> NoValue]
Call(op, id, v) == [op |-> op, id |-> id, v |-> v]

\* the outcome of a call, as the caller sees it
Result(op, id, err, val, ids) ==
    [op |-> op, id |-> id, err |-> err, val |-> val, ids |-> ids]
Event(op) == Result(op, NoId, "nil", NoValue, {})

\* the registry after the package's init(): "redis" and "memory"
Registered0 ==
    [name \in {"redis", "memory"} |->
        IF name = "redis" THEN "NewRedisRepository" ELSE "NewMemoryRepository"]
\* no call is being given to both backends
NoTwin == [op |-> "none", id |-> NoId, d |-> 0, v |-> NoValue, out |-> Event("none")]
\* a caller that is in no factory call
FIdle == [op |-> "idle", at |-> "idle", name |-> "", arg |-> "", found |-> ""]

\* the state after construction, but for the key options of RedisConfig
InitState ==
    /\ backend \in {"memory", "redis"}
    /\ now = 0
    /\ crashed = FALSE
    /\ pc = [p \in Procs |-> Idle]
    /\ last = Event("init")
    /\ data = EmptyMap
    /\ locks = EmptyMap
    /\ expiries = EmptyMap
    /\ store = EmptyMap
    /\ storeTTL = EmptyMap
    /\ lastWritten = EmptyMap
    /\ ttlDeadline = EmptyMap
    /\ incrLog = EmptyMap
    /\ grants = EmptyMap
    /\ wire = {}
    /\ channels = EmptyMap
    /\ sinks = EmptyMap
    /\ published = 0
    /\ repositoryFactories = Registered0
    /\ factoryMutex = [w |-> 0, r |-> {}]
    /\ fpc = [p \in Procs |-> FIdle]
    /\ completed = Registered0
    /\ twin = NoTwin

\* NewRedisRepository with KeyPrefix and KeySeparator left empty: the defaults
Init ==
    /\ InitState
    /\ prefix = DefaultKeyPrefix
    /\ separator = DefaultKeySeparator
    /\ holders = EmptyMap

\* ------------------------------------------------- MemoryRepository (mutex)
\* A handler of MemoryRepository runs from r.mu.Lock() / r.mu.RLock() to the
\* deferred unlock: one step.  Handlers in exclusive mode exclude every other
\* handler; handlers in shared mode may overlap each other.
MuLock(p) ==
    /\ backend = "memory"
    /\ ~crashed

MuRLock(p) ==
    /\ backend = "memory"
    /\ ~crashed

\* faulty variant: an entry lives one tick past its expiry
AfterLate(t, expiry) == t > expiry + 1

\* time.Now().After(expiry)
After(t, expiry) == t > expiry

\* faulty variant: a lock is still held at the instant it expires
BeforeOrAt(t, lockTime) == t <= lockTime

\* time.Now().Before(lockTime)
Before(t, lockTime) == t < lockTime

\* faulty variant: the existence check never finds the key
ExistsNever(m, key) == FALSE

\* _, exists := m[key]
Exists(m, key) == key \in DOMAIN m

\* MemoryRepository.Create
MemCreate(p, identifier, value) ==
    /\ MuLock(p)
    /\ LET key == String(identifier) IN
       IF Exists(data, key)
       THEN /\ last' = Result("Create", identifier, "ErrAlreadyExists", NoValue, {})
            /\ UNCHANGED <<data, lastWritten, ttlDeadline, incrLog>>
       ELSE /\ data' = MapSet(data, key, value)
            /\ last' = Result("Create", identifier, "nil", NoValue, {})
            /\ lastWritten' = HistSet(lastWritten, identifier, value)
            /\ ttlDeadline' = HistDrop(ttlDeadline, identifier)
            /\ incrLog' = HistDrop(incrLog, identifier)
    /\ UNCHANGED <<cfgVars, psVars, wire, backend, now, crashed, pc, locks, expiries, redisVars, grants>>

\* MemoryRepository.Read.  The eviction writes r.data and r.expiries under the
\* shared lock: when another caller is inside a shared section at that moment
\* (`concurrent`) the map accesses race, and the runtime may abort the process.
MemRead(p, identifier, concurrent) ==
    /\ MuRLock(p)
    /\ LET key == String(identifier) IN
       IF Exists(expiries, key) /\ After(now, expiries[key])
       THEN \E fatal \in (IF concurrent THEN BOOLEAN ELSE {FALSE}) :
              IF fatal
              THEN /\ crashed' = TRUE
                   /\ last' = Event("fatal")
                   /\ UNCHANGED <<data, expiries, lastWritten, incrLog>>
              ELSE /\ data' = MapDelete(data, key)
                   /\ expiries' = MapDelete(expiries, key)
                   /\ last' = Result("Read", identifier, "ErrNotFound", NoValue, {})
                   /\ lastWritten' = HistDrop(lastWritten, identifier)
                   /\ incrLog' = HistDrop(incrLog, identifier)
                   /\ UNCHANGED crashed
       ELSE /\ IF Exists(data, key)
               THEN last' = Result("Read", identifier, "nil", data[key], {})
               ELSE last' = Result("Read", identifier, "ErrNotFound", NoValue, {})
            /\ UNCHANGED <<crashed, data, expiries, lastWritten, incrLog>>
    /\ UNCHANGED <<cfgVars, psVars, wire, backend, now, pc, locks, redisVars, ttlDeadline, grants>>

\* MemoryRepository.Update
MemUpdate(p, identifier, value) ==
    /\ MuLock(p)
    /\ LET key == String(identifier) IN
       IF ~Exists(data, key)
       THEN /\ last' = Result("Update", identifier, "ErrNotFound", NoValue, {})
            /\ UNCHANGED <<data, lastWritten, incrLog>>
       ELSE /\ data' = MapSet(data, key, value)
            /\ last' = Result("Update", identifier, "nil", NoValue, {})
            /\ lastWritten' = HistSet(lastWritten, identifier, value)
            /\ incrLog' = HistDrop(incrLog, identifier)
    /\ UNCHANGED <<cfgVars, psVars, wire, backend, now, crashed, pc, locks, expiries, redisVars, ttlDeadline, grants>>

\* MemoryRepository.Upsert
MemUpsert(p, identifier, value) ==
    /\ MuLock(p)
    /\ LET key == String(identifier) IN
       /\ data' = MapSet(data, key, value)
       /\ last' = Result("Upsert", identifier, "nil", NoValue, {})
       /\ lastWritten' = HistDrop(lastWritten, identifier)
       /\ incrLog' = HistDrop(incrLog, identifier)
       /\ ttlDeadline' = IF Exists(data, key) THEN ttlDeadline ELSE HistDrop(ttlDeadline, identifier)
    /\ UNCHANGED <<cfgVars, psVars, wire, backend, now, crashed, pc, locks, expiries, redisVars, grants>>

\* MemoryRepository.Delete
MemDelete(p, identifier) ==
    /\ MuLock(p)
    /\ LET key == String(identifier) IN
       IF ~Exists(data, key)
       THEN /\ last' = Result("Delete", identifier, "ErrNotFound", NoValue, {})
            /\ UNCHANGED <<data, lastWritten, incrLog>>
       ELSE /\ data' = MapDelete(data, key)
            /\ last' = Result("Delete", identifier, "nil", NoValue, {})
            /\ lastWritten' = HistDrop(lastWritten, identifier)
            /\ incrLog' = HistDrop(incrLog, identifier)
    /\ UNCHANGED <<cfgVars, psVars, wire, backend, now, crashed, pc, locks, expiries, redisVars, ttlDeadline, grants>>

\* regexp.Compile over the pattern syntax the identifiers can spell: a literal
\* character, "." (any character), and a postfix "*" on either.
RECURSIVE Compile(_)
Compile(src) ==
    IF src = <<>> THEN <<>>
    ELSE IF Len(src) >= 2 /\ src[2] = "*"
         THEN <<[ch |-> src[1], star |-> TRUE]>> \o Compile(SubSeq(src, 3, Len(src)))
         ELSE <<[ch |-> src[1], star |-> FALSE]>> \o Compile(Tail(src))

\* strings.ReplaceAll(s, "*", ".*")
RECURSIVE ReplaceAllStar(_)
ReplaceAllStar(s) ==
    IF s = <<>> THEN <<>>
    ELSE (IF Head(s) = "*" THEN <<".", "*">> ELSE <<Head(s)>>) \o ReplaceAllStar(Tail(s))

AtomMatches(atom, c) == atom.ch = "." \/ atom.ch = c

\* the compiled expression matches a prefix of s
RECURSIVE MatchHere(_, _)
MatchHere(re, s) ==
    IF re = <<>> THEN TRUE
    ELSE IF Head(re).star
         THEN \/ MatchHere(Tail(re), s)
              \/ (s # <<>> /\ AtomMatches(Head(re), Head(s)) /\ MatchHere(re, Tail(s)))
         ELSE s # <<>> /\ AtomMatches(Head(re), Head(s)) /\ MatchHere(Tail(re), Tail(s))

\* regexp.MatchString: unanchored, the expression matches somewhere in s
MatchString(re, s) == \E i \in 1..(Len(s) + 1) : MatchHere(re, SubSeq(s, i, Len(s)))

\* MemoryRepository.List: every key of r.data the pattern matches (shared mode)
MemList(p, pattern) ==
    /\ MuRLock(p)
    /\ LET regex == Compile(ReplaceAllStar(String(pattern)))
           ids == {key \in DOMAIN data : MatchString(regex, key)}
       IN last' = Result("List", pattern, "nil", NoValue, ids)
    /\ UNCHANGED <<cfgVars, psVars, wire, backend, now, crashed, pc, memVars, redisVars, histVars>>

\* ---------------------------------------------------------------- Search
\* the arguments of a Search call, and what it returns next to the error
SearchArgs(query, offset, limit, sortBy, sortDir) ==
    [query |-> query, offset |-> offset, limit |-> limit, sortBy |-> sortBy, sortDir |-> sortDir]
Page(args, result) == [t |-> "page", n |-> result, args |-> args]

\* the characters of keys and values, in byte order
ByteOrder ==
    <<"!", "*", "-", ".", "0", "1", "2", "3", "4", "5", "6", "7", "8", "9", ":", "?",
      "A", "B", "C", "D", "E", "F", "G", "H", "I", "J", "K", "L", "M",
      "N", "O", "P", "Q", "R", "S", "T", "U", "V", "W", "X", "Y", "Z", "_",
      "a", "b", "c", "d", "e", "f", "g", "h", "i", "j", "k", "l", "m",
      "n", "o", "p", "q", "r", "s", "t", "u", "v", "w", "x", "y", "z">>
Byte(c) == CHOOSE i \in 1..Len(ByteOrder) : ByteOrder[i] = c

\* a < b on Go strings: bytewise, a proper prefix first
StringLess(a, b) ==
    \E i \in 1..Len(b) :
        /\ Len(a) >= i - 1
        /\ SubSeq(a, 1, i - 1) = SubSeq(b, 1, i - 1)
        /\ \/ Len(a) = i - 1
           \/ Byte(a[i]) < Byte(b[i])

\* strconv on a non-negative integer
RECURSIVE Itoa(_)
Itoa(n) ==
    IF n < 10 THEN <<ByteOrder[Byte("0") + n]>>
    ELSE Itoa(n \div 10) \o <<ByteOrder[Byte("0") + (n % 10)]>>

\* fmt.Sprintf("%v", value): entity document d is the string "doc<d>", a
\* counter is its decimal form
Sprintv(value) ==
    IF value.t = "doc" THEN <<"d", "o", "c">> \o Itoa(value.n) ELSE Itoa(value.n)

\* strings.Contains
Contains(s, substr) ==
    \E i \in 1..(Len(s) - Len(substr) + 1) : SubSeq(s, i, i + Len(substr) - 1) = substr

\* sort.Slice with the less function of Search: descending when sortDir is
\* "DESC", ascending for every other value (the keys are distinct)
RECURSIVE SortSlice(_, _)
SortSlice(keys, sortDir) ==
    IF keys = {} THEN <<>>
    ELSE LET first == CHOOSE x \in keys : \A y \in keys \ {x} :
                          IF sortDir = "DESC" THEN StringLess(y, x) ELSE StringLess(x, y)
         IN <<first>> \o SortSlice(keys \ {first}, sortDir)

\* a + b on Go's int: the sum wraps around past MaxInt
IntAdd(a, b) == IF a + b > MaxInt THEN a + b - 2 * (MaxInt + 1) ELSE a + b

\* MemoryRepository.Search (shared mode): the bounds check, the containment
\* scan over r.data, the sort by key, the page.  result[offset:end] panics
\* when end is below offset, which is the case when offset + limit wrapped.
MemSearch(p, query, offset, limit, sortBy, sortDir) ==
    /\ MuRLock(p)
    /\ LET args == SearchArgs(query, offset, limit, sortBy, sortDir) IN
       IF offset < 0 \/ limit < 0
       THEN /\ last' = Result("Search", NoId, "ErrInvalidInput", Page(args, <<>>), {})
            /\ UNCHANGED crashed
       ELSE LET result == SortSlice({key \in DOMAIN data : Contains(Sprintv(data[key]), query)},
                                    sortDir)
                sum == IntAdd(offset, limit)
                end == IF sum > Len(result) THEN Len(result) ELSE sum
            IN IF offset >= Len(result)
               THEN /\ last' = Result("Search", NoId, "nil", Page(args, <<>>), {})
                    /\ UNCHANGED crashed
               ELSE IF end < offset
               THEN /\ last' = Result("Search", NoId, "panic", Page(args, <<>>), {})
                    /\ crashed' = TRUE
               ELSE /\ last' = Result("Search", NoId, "nil",
                                      Page(args, SubSeq(result, offset + 1, end)), {})
                    /\ UNCHANGED crashed
    /\ UNCHANGED <<cfgVars, psVars, wire, backend, now, pc, memVars, redisVars, histVars>>

\* a successful AcquireLock, as history: who, and until when the record lives
Grant(p, forever, until) == [proc |-> p, forever |-> forever, until |-> until]
GrantLive(g, t) == g.forever \/ t < g.until
GrantsOf(identifier) == IF identifier \in DOMAIN grants THEN grants[identifier] ELSE {}
LiveGrants(identifier, t) == {g \in GrantsOf(identifier) : GrantLive(g, t)}
AddGrant(identifier, g) == HistSet(grants, identifier, LiveGrants(identifier, now) \cup {g})
\* the callers that hold the lock by their own account: AcquireLock returned
\* true, the TTL runs, and the caller itself has not called ReleaseLock since
HoldersOf(identifier) == IF identifier \in DOMAIN holders THEN holders[identifier] ELSE {}
LiveHolders(identifier, t) == {g \in HoldersOf(identifier) : GrantLive(g, t)}
AddHolder(identifier, g) ==
    IF identifier \in DOMAIN holders
    THEN HistSet(holders, identifier,
                 {h \in LiveHolders(identifier, now) : h.proc # g.proc} \cup {g})
    ELSE holders
DropHolder(identifier, p) ==
    IF identifier \in DOMAIN holders
    THEN HistSet(holders, identifier, {g \in LiveHolders(identifier, now) : g.proc # p})
    ELSE holders

\* MemoryRepository.AcquireLock
MemAcquireLock(p, identifier, ttl) ==
    /\ MuLock(p)
    /\ LET key == String(identifier) IN
       IF Exists(locks, key) /\ Before(now, locks[key])
       THEN /\ last' = Result("AcquireLock", identifier, "nil", [t |-> "bool", n |-> 0], {})
            /\ UNCHANGED <<locks, grants, holders>>
       ELSE /\ locks' = MapSet(locks, key, now + ttl)
            /\ last' = Result("AcquireLock", identifier, "nil", [t |-> "bool", n |-> 1], {})
            /\ grants' = AddGrant(identifier, Grant(p, FALSE, now + ttl))
            /\ holders' = AddHolder(identifier, Grant(p, FALSE, now + ttl))
    /\ UNCHANGED <<keyVars, factoryVars, twin, psVars, wire, backend, now, crashed, pc, data, expiries, redisVars,
                   lastWritten, ttlDeadline, incrLog>>

\* MemoryRepository.ReleaseLock
MemReleaseLock(p, identifier) ==
    /\ MuLock(p)
    /\ LET key == String(identifier) IN
       IF ~Exists(locks, key)
       THEN /\ last' = Result("ReleaseLock", identifier, "ErrNotFound", NoValue, {})
            /\ UNCHANGED <<locks, grants>>
       ELSE /\ locks' = MapDelete(locks, key)
            /\ last' = Result("ReleaseLock", identifier, "nil", NoValue, {})
            /\ grants' = HistDrop(grants, identifier)
    /\ holders' = DropHolder(identifier, p)
    /\ UNCHANGED <<keyVars, factoryVars, twin, psVars, wire, backend, now, crashed, pc, data, expiries, redisVars,
                   lastWritten, ttlDeadline, incrLog>>

\* MemoryRepository.SetExpiration
MemSetExpiration(p, identifier, expiration) ==
    /\ MuLock(p)
    /\ LET key == String(identifier) IN
       IF ~Exists(data, key)
       THEN /\ last' = Result("SetExpiration", identifier, "ErrNotFound", NoValue, {})
            /\ UNCHANGED <<expiries, ttlDeadline>>
       ELSE /\ expiries' = MapSet(expiries, key, now + expiration)
            /\ last' = Result("SetExpiration", identifier, "nil", NoValue, {})
            /\ ttlDeadline' = HistSet(ttlDeadline, identifier, now + expiration)
    /\ UNCHANGED <<cfgVars, psVars, wire, backend, now, crashed, pc, data, locks, redisVars,
                   lastWritten, incrLog, grants>>

\* time.Until(expiry)
Until(expiry, t) == expiry - t

\* MemoryRepository.GetExpiration (shared mode)
MemGetExpiration(p, identifier) ==
    /\ MuRLock(p)
    /\ LET key == String(identifier) IN
       IF Exists(expiries, key)
       THEN last' = Result("GetExpiration", identifier, "nil",
                           [t |-> "duration", n |-> Until(expiries[key], now)], {})
       ELSE last' = Result("GetExpiration", identifier, "ErrNotFound",
                           [t |-> "duration", n |-> 0], {})
    /\ UNCHANGED <<cfgVars, psVars, wire, backend, now, crashed, pc, memVars, redisVars, histVars>>

\* AtomicIncrement returns, as history: the values in order, and the callers
StartLog(p) == [vals |-> <<1>>, callers |-> {p}]
ExtendLog(log, p, n) == [vals |-> Append(log.vals, n), callers |-> log.callers \cup {p}]

\* faulty variant: the increment is lost
IncrementLost(v) == v

\* v++ on an int64
Increment(v) == v + 1

\* MemoryRepository.AtomicIncrement
MemAtomicIncrement(p, identifier) ==
    /\ MuLock(p)
    /\ LET key == String(identifier) IN
       IF ~Exists(data, key)
       THEN /\ data' = MapSet(data, key, Int64(1))
            /\ last' = Result("AtomicIncrement", identifier, "nil", Int64(1), {})
            /\ incrLog' = HistSet(incrLog, identifier, StartLog(p))
            /\ lastWritten' = HistDrop(lastWritten, identifier)
            /\ ttlDeadline' = HistDrop(ttlDeadline, identifier)
       ELSE IF data[key].t = "int64"
            THEN /\ data[key].n < MaxCount
                 /\ data' = MapSet(data, key, Int64(Increment(data[key].n)))
                 /\ last' = Result("AtomicIncrement", identifier, "nil",
                                   Int64(Increment(data[key].n)), {})
                 /\ incrLog' = IF identifier \in DOMAIN incrLog
                               THEN HistSet(incrLog, identifier,
                                           ExtendLog(incrLog[identifier], p,
                                                     Increment(data[key].n)))
                               ELSE incrLog
                 /\ lastWritten' = HistDrop(lastWritten, identifier)
                 /\ UNCHANGED ttlDeadline
            ELSE /\ last' = Result("AtomicIncrement", identifier, "ErrInvalidInput",
                                   Int64(0), {})
                 /\ UNCHANGED <<data, incrLog, lastWritten, ttlDeadline>>
    /\ UNCHANGED <<cfgVars, psVars, wire, backend, now, crashed, pc, locks, expiries, redisVars, grants>>

\* the identifiers whose key is one of `keys`
IdsOfKeys(keys) == {i \in Ids : String(i) \in keys}
DropAll(m, ks) == [x \in (DOMAIN m) \ ks |-> m[x]]

\* MemoryRepository.cleanupExpired: the sweep nuts.Interval runs every minute
cleanupExpired ==
    /\ backend = "memory"
    /\ ~crashed
    /\ LET gone == {key \in DOMAIN expiries : After(now, expiries[key])} IN
       /\ data' = DropAll(data, gone)
       /\ expiries' = DropAll(expiries, gone)
       /\ lastWritten' = HistDropAll(lastWritten, IdsOfKeys(gone))
       /\ incrLog' = HistDropAll(incrLog, IdsOfKeys(gone))
    /\ last' = Event("cleanupExpired")
    /\ UNCHANGED <<cfgVars, psVars, wire, backend, now, crashed, pc, locks, redisVars, ttlDeadline, grants>>

\* ------------------------------------------- MemoryRepository (pub/sub)
\* the channel names the callers use
ChannelNames == {"a", "b"}
SinkIds == 1..MaxSubs

\* ch := make(chan interface{}, 100), the context given to Subscribe, and the
\* routine Subscribe starts, which waits for <-ctx.Done().  `got` is history:
\* every message that was ever put into the buffer.
NewSink(channel, ctx) ==
    [channel |-> channel, buf |-> <<>>, got |-> <<>>, closed |-> FALSE,
     ctx |-> ctx, routine |-> "waiting"]

\* r.channels[channel], nil when the key is absent
Registered(channel) == IF channel \in DOMAIN channels THEN channels[channel] ELSE <<>>
\* the sinks in a slice of the registry
SinksIn(slice) == {slice[i] : i \in 1..Len(slice)}

\* faulty variant: the send does not look at the room left in the buffer
TrySendForce(sink, message) ==
    [sink EXCEPT !.buf = Append(@, message), !.got = Append(@, message)]

\* select { case ch <- message: default: }: the message is buffered when there
\* is room and dropped otherwise
TrySend(sink, message) ==
    IF Len(sink.buf) < SinkBuffer
    THEN [sink EXCEPT !.buf = Append(@, message), !.got = Append(@, message)]
    ELSE sink

\* faulty variant: the sinks of every channel
TargetsAnyChannel(channel) == UNION {SinksIn(channels[c]) : c \in DOMAIN channels}

\* the sinks Publish ranges over: r.channels[channel]
Targets(channel) == SinksIn(Registered(channel))

\* MemoryRepository.Publish (shared mode).  A send on a closed channel panics.
MemPublish(p, channel) ==
    /\ MuRLock(p)
    /\ published < MaxMsgs
    /\ published' = published + 1
    /\ LET targets == Targets(channel) IN
       IF \E s \in targets : sinks[s].closed
       THEN /\ crashed' = TRUE
            /\ last' = Event("panic")
            /\ UNCHANGED sinks
       ELSE /\ sinks' = [s \in DOMAIN sinks |->
                           IF s \in targets THEN TrySend(sinks[s], published + 1)
                           ELSE sinks[s]]
            /\ last' = Result("Publish", NoId, "nil",
                              [t |-> "message", n |-> published + 1], {channel})
            /\ UNCHANGED crashed
    /\ UNCHANGED <<cfgVars, wire, backend, now, pc, memVars, redisVars, histVars, channels>>

\* MemoryRepository.Subscribe: a new sink appended to the channel's slice, and
\* the cleanup routine started; the caller's context may be cancelled already
MemSubscribe(p, channel, ctx) ==
    /\ MuLock(p)
    /\ Cardinality(DOMAIN sinks) < MaxSubs
    /\ LET ch == Cardinality(DOMAIN sinks) + 1 IN
       /\ sinks' = HistSet(sinks, ch, NewSink(channel, ctx))
       /\ channels' = MapSet(channels, channel, Append(Registered(channel), ch))
       /\ last' = Result("Subscribe", NoId, "nil", [t |-> "chan", n |-> ch], {channel})
    /\ UNCHANGED <<cfgVars, wire, backend, now, crashed, pc, memVars, redisVars,
                   histVars, published>>

\* the caller cancels the context it gave to Subscribe
CancelContext(ch) ==
    /\ ~crashed
    /\ ch \in DOMAIN sinks
    /\ sinks[ch].ctx = "live"
    /\ sinks' = [sinks EXCEPT ![ch].ctx = "cancelled"]
    /\ last' = Result("cancel", NoId, "nil", [t |-> "chan", n |-> ch], {})
    /\ UNCHANGED <<cfgVars, wire, backend, now, crashed, pc, memVars, redisVars,
                   histVars, channels, published>>

\* faulty variant: the slice is left as it was
RemoveNone(slice, i) == slice

\* append(slice[:i], slice[i+1:]...)
RemoveAt(slice, i) == SubSeq(slice, 1, i - 1) \o SubSeq(slice, i + 1, Len(slice))

\* the routine of Subscribe once <-ctx.Done() returns: under the exclusive
\* lock, the sink is looked up in its channel's slice, removed and closed
SubscribeCleanup(ch) ==
    /\ backend = "memory"
    /\ ~crashed
    /\ ch \in DOMAIN sinks
    /\ sinks[ch].routine = "waiting"
    /\ sinks[ch].ctx = "cancelled"
    /\ LET slice == Registered(sinks[ch].channel) IN
       IF \E i \in 1..Len(slice) : slice[i] = ch
       THEN LET i == CHOOSE j \in 1..Len(slice) : slice[j] = ch IN
            /\ channels' = MapSet(channels, sinks[ch].channel, RemoveAt(slice, i))
            /\ sinks' = [sinks EXCEPT ![ch].routine = "done", ![ch].closed = TRUE]
       ELSE /\ sinks' = [sinks EXCEPT ![ch].routine = "done"]
            /\ UNCHANGED channels
    /\ last' = Result("cleanup", NoId, "nil", [t |-> "chan", n |-> ch], {})
    /\ UNCHANGED <<cfgVars, wire, backend, now, crashed, pc, memVars, redisVars,
                   histVars, published>>

\* faulty variant: the loops of Close visit no sink
NoneRegistered == {}

\* the sinks of every slice of the registry
AllRegistered == UNION {SinksIn(channels[c]) : c \in DOMAIN channels}

\* faulty variant: Close leaves the registry as it was
RegistryKept == channels

\* r.channels = make(map[string][]chan interface{})
RegistryMade == EmptyMap

\* MemoryRepository.Close: every registered sink is closed, the registry is
\* replaced by an empty map
MemClose(p) ==
    /\ MuLock(p)
    /\ sinks' = [s \in DOMAIN sinks |->
                   IF s \in AllRegistered THEN [sinks[s] EXCEPT !.closed = TRUE]
                   ELSE sinks[s]]
    /\ channels' = RegistryMade
    /\ last' = Result("Close", NoId, "nil", NoValue, {})
    /\ UNCHANGED <<cfgVars, wire, backend, now, crashed, pc, memVars, redisVars,
                   histVars, published>>

\* the subscriber takes the next message out of its stream
Receive(ch) ==
    /\ backend = "memory"
    /\ ~crashed
    /\ ch \in DOMAIN sinks
    /\ sinks[ch].buf # <<>>
    /\ sinks' = [sinks EXCEPT ![ch].buf = Tail(@)]
    /\ last' = Result("receive", NoId, "nil", [t |-> "message", n |-> Head(sinks[ch].buf)], {})
    /\ UNCHANGED <<cfgVars, wire, backend, now, crashed, pc, memVars, redisVars,
                   histVars, channels, published>>

\* ------------------------------------------------------- RedisRepository
MinKeyLength == 5
MaxKeyLength == 256
Lower == {"a", "b", "c", "d", "e", "f", "g", "h", "i", "j", "k", "l", "m",
          "n", "o", "p", "q", "r", "s", "t", "u", "v", "w", "x", "y", "z"}
Upper == {"A", "B", "C", "D", "E", "F", "G", "H", "I", "J", "K", "L", "M",
          "N", "O", "P", "Q", "R", "S", "T", "U", "V", "W", "X", "Y", "Z"}
Numeric == {"0", "1", "2", "3", "4", "5", "6", "7", "8", "9"}
\* validKeyRegex ^[a-zA-Z0-9_:.-]+$
validKeyChars == Lower \cup Upper \cup Numeric \cup {"_", ":", ".", "-"}
\* validKeyPatternRegex ^[a-zA-Z0-9_:.\-\?\*]+$
validKeyPatternChars == validKeyChars \cup {"?", "*"}

AllIn(s, chars) == s # <<>> /\ \A i \in 1..Len(s) : s[i] \in chars

\* strings.HasPrefix
HasPrefix(s, pre) == Len(s) >= Len(pre) /\ SubSeq(s, 1, Len(pre)) = pre

\* strings.Split(s, sep) for the one-character separator
RECURSIVE Split(_, _)
Split(s, sep) ==
    IF \A i \in 1..Len(s) : <<s[i]>> # sep THEN <<s>>
    ELSE LET i == CHOOSE j \in 1..Len(s) :
                      <<s[j]>> = sep /\ \A k \in 1..(j - 1) : <<s[k]>> # sep
         IN <<SubSeq(s, 1, i - 1)>> \o Split(SubSeq(s, i + 1, Len(s)), sep)

\* strings.Join(parts, sep)
RECURSIVE Join(_, _)
Join(parts, sep) ==
    IF parts = <<>> THEN <<>>
    ELSE IF Len(parts) = 1 THEN parts[1]
         ELSE parts[1] \o sep \o Join(Tail(parts), sep)

\* faulty variant: the character set is checked before the length
validateKeyCharsFirst(key, allowPattern) ==
    IF allowPattern /\ ~AllIn(key, validKeyPatternChars) THEN "ErrInvalidKeyPatternChars"
    ELSE IF ~allowPattern /\ ~AllIn(key, validKeyChars) THEN "ErrInvalidKeyChars"
    ELSE IF Len(key) < MinKeyLength \/ Len(key) > MaxKeyLength THEN "ErrInvalidKeyLength"
    ELSE IF ~HasPrefix(key, prefix \o separator) THEN "ErrInvalidKeyPrefix"
    ELSE LET parts == Split(key, separator) IN
         IF Len(parts) < 2 \/ parts[2] = <<>> THEN "ErrInvalidKeySuffix"
         ELSE IF \E i \in 1..Len(parts) : parts[i] = <<>> THEN "ErrEmptyKeyPart"
         ELSE "nil"

\* RedisRepository.validateKey: "nil" or the first rule the key breaks
validateKey(key, allowPattern) ==
    IF Len(key) < MinKeyLength \/ Len(key) > MaxKeyLength THEN "ErrInvalidKeyLength"
    ELSE IF allowPattern /\ ~AllIn(key, validKeyPatternChars) THEN "ErrInvalidKeyPatternChars"
    ELSE IF ~allowPattern /\ ~AllIn(key, validKeyChars) THEN "ErrInvalidKeyChars"
    ELSE IF ~HasPrefix(key, prefix \o separator) THEN "ErrInvalidKeyPrefix"
    ELSE LET parts == Split(key, separator) IN
         IF Len(parts) < 2 \/ parts[2] = <<>> THEN "ErrInvalidKeySuffix"
         ELSE IF \E i \in 1..Len(parts) : parts[i] = <<>> THEN "ErrEmptyKeyPart"
         ELSE "nil"

\* RedisRepository.validateEntityPrefix: entityPrefixRegex ^[a-zA-Z][a-zA-Z0-9_-]*$
validateEntityPrefix(entityPrefix) ==
    IF /\ entityPrefix # <<>>
       /\ entityPrefix[1] \in Lower \cup Upper
       /\ \A i \in 2..Len(entityPrefix) :
              entityPrefix[i] \in Lower \cup Upper \cup Numeric \cup {"_", "-"}
    THEN "nil"
    ELSE "ErrInvalidEntityPrefix"

\* faulty variant: the outcome of the validation is dropped
KeyedAnyway(key, err) == [key |-> key, err |-> "nil"]

Keyed(key, err) == [key |-> IF err = "nil" THEN key ELSE <<>>, err |-> err]

\* RedisRepository.createKey
createKey(parts) ==
    LET key == Join(<<prefix>> \o parts, separator)
    IN Keyed(key, validateKey(key, FALSE))

\* RedisRepository.createKeyPattern
createKeyPattern(parts) ==
    LET key == Join(<<prefix>> \o parts, separator)
    IN Keyed(key, validateKey(key, TRUE))

\* RedisRepository.identifierToKey
identifierToKey(identifier, allowPattern) ==
    IF identifier.kind = "RedisIdentifier"
    THEN IF validateEntityPrefix(identifier.EntityPrefix) # "nil"
         THEN Keyed(<<>>, validateEntityPrefix(identifier.EntityPrefix))
         ELSE IF allowPattern
              THEN createKeyPattern(<<identifier.EntityPrefix, identifier.ID>>)
              ELSE createKey(<<identifier.EntityPrefix, identifier.ID>>)
    ELSE IF identifier.kind = "SimpleIdentifier"
         THEN createKey(<<identifier.ID>>)
         ELSE Keyed(<<>>, "ErrUnsupportedIdentifier")

\* RedisRepository.parseKey: the segments after the namespace prefix
parseKey(key) ==
    IF validateKey(key, FALSE) # "nil"
    THEN [parts |-> <<>>, err |-> validateKey(key, FALSE)]
    ELSE [parts |-> Tail(Split(key, separator)), err |-> "nil"]

\* RedisRepository.keyToIdentifier
keyToIdentifier(key) ==
    LET parsed == parseKey(key) IN
    IF parsed.err # "nil" THEN [id |-> NoId, err |-> parsed.err]
    ELSE IF Len(parsed.parts) >= 2
         THEN [id |-> RedisIdentifier(parsed.parts[1], parsed.parts[2]), err |-> "nil"]
         ELSE [id |-> SimpleIdentifier(Join(parsed.parts, separator)), err |-> "nil"]

\* an ID that brings the physical key to MaxKeyLength under the default options
LongID == [i \in 1..(MaxKeyLength - 6) |-> "x"]
\* identifiers handed to the operations of the networked backend: two that
\* validate, one with a refused entity prefix, one with a refused character,
\* one with a wildcard
KeyIds ==
    {RedisIdentifier(<<"u">>, <<"1">>), SimpleIdentifier(<<"t", "1">>),
     RedisIdentifier(<<"1", "u">>, <<"1">>), RedisIdentifier(<<"u">>, <<"!">>),
     RedisIdentifier(<<"u">>, <<"*">>)}
\* the longest identifier that validates, and a pattern that finds it
LongKeyIds == {RedisIdentifier(<<"u">>, LongID), RedisIdentifier(<<"u">>, <<"*">>)}

\* the key options a RedisConfig may carry
KeyPrefixes == {DefaultKeyPrefix, <<"d", "b">>}
KeySeparators == {DefaultKeySeparator, <<"-">>}

\* identifiers handed to the codec: well-formed ones, wildcards, characters and
\* prefixes the rules refuse, empty parts
CodecPrefixes == {<<"u">>, <<"a", "-", "b">>, <<"1", "u">>, <<"u", "!">>, <<"u", "*">>}
CodecIDs == {<<"1">>, <<"x", "_", "1">>, <<"1", ":", "2">>, <<"*">>, <<"x", "?">>, <<"!">>, <<>>}
CodecTokens == {<<"t", "1">>, <<"u", ":", "1">>, <<"t", "*">>, <<"u", ":", "*">>, <<"?">>, <<"!", "!">>}
CodecIds ==
    {RedisIdentifier(e, i) : e \in CodecPrefixes, i \in CodecIDs}
        \cup {SimpleIdentifier(t) : t \in CodecTokens}

\* identifierToKey applied to an identifier
Encode(identifier, allowPattern) ==
    /\ backend = "redis"
    /\ LET k == identifierToKey(identifier, allowPattern) IN
       last' = Result("identifierToKey", identifier, k.err,
                      [t |-> IF allowPattern THEN "pattern" ELSE "key", n |-> k.key], {})
    /\ UNCHANGED <<cfgVars, psVars, wire, backend, now, crashed, pc, memVars, redisVars,
                   histVars>>

\* keyToIdentifier applied to the key identifierToKey has just returned
Decode ==
    /\ backend = "redis"
    /\ last.op = "identifierToKey"
    /\ last.err = "nil"
    /\ LET d == keyToIdentifier(last.val.n) IN
       last' = Result("keyToIdentifier", d.id, d.err, last.val, {last.id})
    /\ UNCHANGED <<cfgVars, psVars, wire, backend, now, crashed, pc, memVars, redisVars,
                   histVars>>

\* keyToIdentifier applied to a key the store returned, as List and Search do
DecodeKey(key) ==
    /\ backend = "redis"
    /\ LET d == keyToIdentifier(key) IN
       last' = Result("keyToIdentifier", d.id, d.err, [t |-> "stored", n |-> key], {})
    /\ UNCHANGED <<cfgVars, psVars, wire, backend, now, crashed, pc, memVars, redisVars,
                   histVars>>

\* identifierToKey applied to the identifier keyToIdentifier has just returned
Reencode ==
    /\ backend = "redis"
    /\ last.op = "keyToIdentifier"
    /\ last.val.t = "stored"
    /\ last.err = "nil"
    /\ LET k == identifierToKey(last.id, FALSE) IN
       last' = Result("identifierToKey", last.id, k.err,
                      [t |-> "resolved", n |-> k.key, from |-> last.val.n], {})
    /\ UNCHANGED <<cfgVars, psVars, wire, backend, now, crashed, pc, memVars, redisVars,
                   histVars>>

\* lockKey := key + r.separator + KeyPartLock
LockKey(key) == key \o separator \o KeyPartLock

\* a command on the wire
Cmd(name, key) == [cmd |-> name, key |-> key]
\* what a handler sends once identifierToKey has run: nothing on an error
Sent(identifier, name) ==
    LET k == identifierToKey(identifier, FALSE)
    IN IF k.err # "nil" THEN {} ELSE {Cmd(name, k.key)}
SentLock(identifier, name) ==
    LET k == identifierToKey(identifier, FALSE)
    IN IF k.err # "nil" THEN {} ELSE {Cmd(name, LockKey(k.key))}

\* a call begins: the caller is not inside another call
RedisCall(p) ==
    /\ backend = "redis"
    /\ ~crashed
    /\ pc[p] = Idle

\* the identifiers whose physical key is one of `keys`
IdsOfStoreKeys(keys) == {i \in Ids : identifierToKey(i, FALSE).key \in keys}

\* the reply of JSON.SET key . data: a key of another type is refused
JSONSetRefused(key) == Exists(store, key) /\ store[key].t = "string"

\* JSON.SET key . data (the last command of Create, Update and Upsert).  Whether
\* the store keeps the key's TTL across the overwrite is the store's choice.
JSONSet(p, op, identifier, key, value) ==
    IF JSONSetRefused(key)
    THEN /\ last' = Result(op, identifier, "WRONGTYPE", NoValue, {})
         /\ UNCHANGED <<store, storeTTL, incrLog>>
    ELSE /\ store' = MapSet(store, key, value)
         /\ \E keepTTL \in BOOLEAN :
              storeTTL' = IF keepTTL THEN storeTTL ELSE MapDelete(storeTTL, key)
         /\ last' = Result(op, identifier, "nil", NoValue, {})
         /\ incrLog' = HistDrop(incrLog, identifier)

\* RedisRepository.Create up to its EXISTS reply
RedisCreateBegin(p, identifier, value) ==
    /\ RedisCall(p)
    /\ LET k == identifierToKey(identifier, FALSE) IN
       IF k.err # "nil"
       THEN /\ last' = Result("Create", identifier, "ErrInvalidIdentifier", NoValue, {})
            /\ UNCHANGED pc
       ELSE IF Exists(store, k.key)
            THEN /\ last' = Result("Create", identifier, "ErrAlreadyExists", NoValue, {})
                 /\ UNCHANGED pc
            ELSE /\ pc' = [pc EXCEPT ![p] = Call("Create", identifier, value)]
                 /\ last' = Result("Create", identifier, "pending", NoValue, {})
    /\ wire' = Sent(identifier, "EXISTS")
    /\ UNCHANGED <<cfgVars, psVars, backend, now, crashed, memVars, redisVars, histVars>>

\* RedisRepository.Create, its JSON.SET
RedisCreate(p) ==
    /\ backend = "redis"
    /\ pc[p].op = "Create"
    /\ JSONSet(p, "Create", pc[p].id, identifierToKey(pc[p].id, FALSE).key, pc[p].v)
    /\ pc' = [pc EXCEPT ![p] = Idle]
    /\ wire' = Sent(pc[p].id, "JSON.SET")
    /\ UNCHANGED <<cfgVars, psVars, backend, now, crashed, memVars, lastWritten, ttlDeadline, grants>>

\* RedisRepository.Read: JSON.GET
RedisRead(p, identifier) ==
    /\ RedisCall(p)
    /\ LET k == identifierToKey(identifier, FALSE) IN
       IF k.err # "nil"
       THEN last' = Result("Read", identifier, "ErrInvalidIdentifier", NoValue, {})
       ELSE IF ~Exists(store, k.key)
            THEN last' = Result("Read", identifier, "ErrNotFound", NoValue, {})
            ELSE IF store[k.key].t = "string"
                 THEN last' = Result("Read", identifier, "WRONGTYPE", NoValue, {})
                 ELSE last' = Result("Read", identifier, "nil", store[k.key], {})
    /\ wire' = Sent(identifier, "JSON.GET")
    /\ UNCHANGED <<cfgVars, psVars, backend, now, crashed, pc, memVars, redisVars, histVars>>

\* RedisRepository.Update up to its EXISTS reply
RedisUpdateBegin(p, identifier, value) ==
    /\ RedisCall(p)
    /\ LET k == identifierToKey(identifier, FALSE) IN
       IF k.err # "nil"
       THEN /\ last' = Result("Update", identifier, "ErrInvalidIdentifier", NoValue, {})
            /\ UNCHANGED pc
       ELSE IF ~Exists(store, k.key)
            THEN /\ last' = Result("Update", identifier, "ErrNotFound", NoValue, {})
                 /\ UNCHANGED pc
            ELSE /\ pc' = [pc EXCEPT ![p] = Call("Update", identifier, value)]
                 /\ last' = Result("Update", identifier, "pending", NoValue, {})
    /\ wire' = Sent(identifier, "EXISTS")
    /\ UNCHANGED <<cfgVars, psVars, backend, now, crashed, memVars, redisVars, histVars>>

\* RedisRepository.Update, its JSON.SET
RedisUpdate(p) ==
    /\ backend = "redis"
    /\ pc[p].op = "Update"
    /\ JSONSet(p, "Update", pc[p].id, identifierToKey(pc[p].id, FALSE).key, pc[p].v)
    /\ pc' = [pc EXCEPT ![p] = Idle]
    /\ wire' = Sent(pc[p].id, "JSON.SET")
    /\ UNCHANGED <<cfgVars, psVars, backend, now, crashed, memVars, lastWritten, ttlDeadline, grants>>

\* RedisRepository.Upsert: JSON.SET
RedisUpsert(p, identifier, value) ==
    /\ RedisCall(p)
    /\ LET k == identifierToKey(identifier, FALSE) IN
       IF k.err # "nil"
       THEN /\ last' = Result("Upsert", identifier, "ErrInvalidIdentifier", NoValue, {})
            /\ UNCHANGED <<store, storeTTL, incrLog>>
       ELSE JSONSet(p, "Upsert", identifier, k.key, value)
    /\ wire' = Sent(identifier, "JSON.SET")
    /\ UNCHANGED <<cfgVars, psVars, backend, now, crashed, pc, memVars, lastWritten, ttlDeadline, grants>>

\* RedisRepository.Delete: DEL, NotFound on a count of zero
RedisDelete(p, identifier) ==
    /\ RedisCall(p)
    /\ LET k == identifierToKey(identifier, FALSE) IN
       IF k.err # "nil"
       THEN /\ last' = Result("Delete", identifier, "ErrInvalidIdentifier", NoValue, {})
            /\ UNCHANGED <<store, storeTTL, incrLog>>
       ELSE IF ~Exists(store, k.key)
            THEN /\ last' = Result("Delete", identifier, "ErrNotFound", NoValue, {})
                 /\ UNCHANGED <<store, storeTTL, incrLog>>
            ELSE /\ store' = MapDelete(store, k.key)
                 /\ storeTTL' = MapDelete(storeTTL, k.key)
                 /\ last' = Result("Delete", identifier, "nil", NoValue, {})
                 /\ incrLog' = HistDrop(incrLog, identifier)
    /\ wire' = Sent(identifier, "DEL")
    /\ UNCHANGED <<cfgVars, psVars, backend, now, crashed, pc, memVars, lastWritten, ttlDeadline, grants>>

\* the store's glob matching of KEYS: * any run of characters, ? any one
\* character, anything else itself; the whole key must match.  The pattern is
\* taken one literal run at a time, each * choosing how much of the key it covers.
RECURSIVE GlobMatch(_, _)
GlobMatch(pattern, key) ==
    LET stars == {i \in 1..Len(pattern) : pattern[i] = "*"}
        run == IF stars = {} THEN Len(pattern)
               ELSE (CHOOSE i \in stars : \A j \in stars : i <= j) - 1
    IN /\ Len(key) >= run
       /\ \A i \in 1..run : pattern[i] = "?" \/ pattern[i] = key[i]
       /\ IF stars = {} THEN Len(key) = run
          ELSE \E n \in run..Len(key) :
                  GlobMatch(SubSeq(pattern, run + 2, Len(pattern)),
                            SubSeq(key, n + 1, Len(key)))

\* the reply of KEYS keyPattern
KeysReply(keyPattern) == {key \in DOMAIN store : GlobMatch(keyPattern, key)}

\* the keys of a KEYS reply that List goes on to read: those that validate and decode
Listable(keys) ==
    {key \in keys : validateKey(key, FALSE) = "nil" /\ keyToIdentifier(key).err = "nil"}

\* RedisRepository.List: KEYS, then JSON.GET on every key that validates and
\* decodes; a key whose JSON.GET fails (a counter, a lock record) is skipped
RedisList(p, pattern) ==
    /\ RedisCall(p)
    /\ LET k == identifierToKey(pattern, TRUE) IN
       IF k.err # "nil"
       THEN /\ last' = Result("List", pattern, "ErrInvalidIdentifier", NoValue, {})
            /\ wire' = {}
       ELSE LET read == Listable(KeysReply(k.key))
                found == {key \in read : store[key].t = "doc"}
            IN /\ last' = Result("List", pattern, "nil", NoValue,
                                 {String(keyToIdentifier(key).id) : key \in found})
               /\ wire' = {Cmd("KEYS", k.key)} \cup {Cmd("JSON.GET", key) : key \in read}
    /\ UNCHANGED <<cfgVars, psVars, backend, now, crashed, pc, memVars, redisVars, histVars>>

\* the replies FT.SEARCH may give: an error, a value that is no array, or an
\* array of a total and the matching keys in the order the store chose
SearchReplies ==
    {[kind |-> "error", total |-> 0, keys |-> <<>>],
     [kind |-> "other", total |-> 0, keys |-> <<>>]}
    \cup {[kind |-> "array", total |-> Cardinality(found), keys |-> SortSlice(found, dir)] :
            found \in SUBSET {key \in DOMAIN store : store[key].t = "doc"},
            dir \in {"ASC", "DESC"}}

\* the keys of a reply that validate and decode, as identifiers, in order
RECURSIVE Decoded(_)
Decoded(keys) ==
    IF keys = <<>> THEN <<>>
    ELSE LET key == Head(keys) IN
         IF validateKey(key, FALSE) = "nil" /\ keyToIdentifier(key).err = "nil"
         THEN <<String(keyToIdentifier(key).id)>> \o Decoded(Tail(keys))
         ELSE Decoded(Tail(keys))

\* RedisRepository.Search: FT.SEARCH prefix query LIMIT offset limit SORTBY
\* sortBy sortDir is sent with the arguments as given
RedisSearch(p, query, offset, limit, sortBy, sortDir) ==
    /\ RedisCall(p)
    /\ wire' = {Cmd("FT.SEARCH", prefix)}
    /\ LET args == SearchArgs(query, offset, limit, sortBy, sortDir) IN
       \E reply \in SearchReplies :
          last' = Result("Search", NoId,
                         CASE reply.kind = "error" -> "ErrOperationFailed"
                           [] reply.kind = "other" -> "unexpected search result format"
                           [] OTHER -> "nil",
                         Page(args, IF reply.kind = "array" /\ reply.total # 0
                                    THEN Decoded(reply.keys) ELSE <<>>), {})
    /\ UNCHANGED <<cfgVars, psVars, backend, now, crashed, pc, memVars, redisVars, histVars>>

\* faulty variant: a plain SET, which overwrites a lock that is held
SetNXAlways(key) == TRUE

\* the reply of SET lockKey 1 NX: the key is set only when it is absent
SetNXReply(key) == ~Exists(store, key)

\* RedisRepository.AcquireLock: SET lockKey 1 NX with the TTL; go-redis sends a
\* plain SETNX, which sets no expiry, when the TTL is zero
RedisAcquireLock(p, identifier, ttl) ==
    /\ RedisCall(p)
    /\ LET k == identifierToKey(identifier, FALSE) IN
       IF k.err # "nil"
       THEN /\ last' = Result("AcquireLock", identifier, "ErrInvalidIdentifier",
                              [t |-> "bool", n |-> 0], {})
            /\ UNCHANGED <<store, storeTTL, grants, holders>>
       ELSE IF ~SetNXReply(LockKey(k.key))
            THEN /\ last' = Result("AcquireLock", identifier, "nil",
                                   [t |-> "bool", n |-> 0], {})
                 /\ UNCHANGED <<store, storeTTL, grants, holders>>
            ELSE /\ store' = MapSet(store, LockKey(k.key), [t |-> "string", n |-> 1])
                 /\ storeTTL' = IF ttl = 0 THEN storeTTL
                                ELSE MapSet(storeTTL, LockKey(k.key), now + ttl)
                 /\ last' = Result("AcquireLock", identifier, "nil",
                                   [t |-> "bool", n |-> 1], {})
                 /\ grants' = AddGrant(identifier, Grant(p, ttl = 0, now + ttl))
                 /\ holders' = AddHolder(identifier,
                                          Grant(p, ttl = 0, IF ttl = 0 THEN 0 ELSE now + ttl))
    /\ wire' = SentLock(identifier, "SETNX")
    /\ UNCHANGED <<keyVars, factoryVars, twin, psVars, backend, now, crashed, pc, memVars, lastWritten, ttlDeadline, incrLog>>

\* RedisRepository.ReleaseLock: DEL lockKey, NotFound on a count of zero
RedisReleaseLock(p, identifier) ==
    /\ RedisCall(p)
    /\ LET k == identifierToKey(identifier, FALSE) IN
       IF k.err # "nil"
       THEN /\ last' = Result("ReleaseLock", identifier, "ErrInvalidIdentifier", NoValue, {})
            /\ UNCHANGED <<store, storeTTL, grants>>
       ELSE IF ~Exists(store, LockKey(k.key))
            THEN /\ last' = Result("ReleaseLock", identifier, "ErrNotFound", NoValue, {})
                 /\ UNCHANGED <<store, storeTTL, grants>>
            ELSE /\ store' = MapDelete(store, LockKey(k.key))
                 /\ storeTTL' = MapDelete(storeTTL, LockKey(k.key))
                 /\ last' = Result("ReleaseLock", identifier, "nil", NoValue, {})
                 /\ grants' = HistDrop(grants, identifier)
    /\ holders' = DropHolder(identifier, p)
    /\ wire' = SentLock(identifier, "DEL")
    /\ UNCHANGED <<keyVars, factoryVars, twin, psVars, backend, now, crashed, pc, memVars, lastWritten, ttlDeadline, incrLog>>

\* RedisRepository.SetExpiration: EXPIRE, whose reply (0 for a missing key) is
\* dropped; a timeout of zero deletes the key
RedisSetExpiration(p, identifier, expiration) ==
    /\ RedisCall(p)
    /\ LET k == identifierToKey(identifier, FALSE) IN
       IF k.err # "nil"
       THEN /\ last' = Result("SetExpiration", identifier, "ErrInvalidIdentifier", NoValue, {})
            /\ UNCHANGED <<store, storeTTL, incrLog>>
       ELSE /\ last' = Result("SetExpiration", identifier, "nil", NoValue, {})
            /\ IF ~Exists(store, k.key)
               THEN UNCHANGED <<store, storeTTL, incrLog>>
               ELSE IF expiration = 0
                    THEN /\ store' = MapDelete(store, k.key)
                         /\ storeTTL' = MapDelete(storeTTL, k.key)
                         /\ incrLog' = HistDrop(incrLog, identifier)
                    ELSE /\ storeTTL' = MapSet(storeTTL, k.key, now + expiration)
                         /\ UNCHANGED <<store, incrLog>>
    /\ wire' = Sent(identifier, "EXPIRE")
    /\ UNCHANGED <<cfgVars, psVars, backend, now, crashed, pc, memVars, lastWritten, ttlDeadline, grants>>

\* the reply of TTL key: -2 for a missing key, -1 for a key without expiry
TTLReply(key) ==
    IF ~Exists(store, key) THEN 0 - 2
    ELSE IF ~Exists(storeTTL, key) THEN 0 - 1
    ELSE storeTTL[key] - now

\* RedisRepository.GetExpiration: TTL, NotFound on a negative reply
RedisGetExpiration(p, identifier) ==
    /\ RedisCall(p)
    /\ LET k == identifierToKey(identifier, FALSE) IN
       IF k.err # "nil"
       THEN last' = Result("GetExpiration", identifier, "ErrInvalidIdentifier",
                           [t |-> "duration", n |-> 0], {})
       ELSE IF TTLReply(k.key) < 0
            THEN last' = Result("GetExpiration", identifier, "ErrNotFound",
                                [t |-> "duration", n |-> 0], {})
            ELSE last' = Result("GetExpiration", identifier, "nil",
                                [t |-> "duration", n |-> TTLReply(k.key)], {})
    /\ wire' = Sent(identifier, "TTL")
    /\ UNCHANGED <<cfgVars, psVars, backend, now, crashed, pc, memVars, redisVars, histVars>>

\* RedisRepository.AtomicIncrement: INCR, its reply and error returned as they are
RedisAtomicIncrement(p, identifier) ==
    /\ RedisCall(p)
    /\ LET k == identifierToKey(identifier, FALSE) IN
       IF k.err # "nil"
       THEN /\ last' = Result("AtomicIncrement", identifier, "ErrInvalidIdentifier",
                              Int64(0), {})
            /\ UNCHANGED <<store, incrLog>>
       ELSE IF ~Exists(store, k.key)
            THEN /\ store' = MapSet(store, k.key, [t |-> "string", n |-> 1])
                 /\ last' = Result("AtomicIncrement", identifier, "nil", Int64(1), {})
                 /\ incrLog' = HistSet(incrLog, identifier, StartLog(p))
            ELSE IF store[k.key].t = "string"
                 THEN /\ store[k.key].n < MaxCount
                      /\ store' = MapSet(store, k.key,
                                         [t |-> "string", n |-> store[k.key].n + 1])
                      /\ last' = Result("AtomicIncrement", identifier, "nil",
                                        Int64(store[k.key].n + 1), {})
                      /\ incrLog' = IF identifier \in DOMAIN incrLog
                                    THEN HistSet(incrLog, identifier,
                                                ExtendLog(incrLog[identifier], p,
                                                          store[k.key].n + 1))
                                    ELSE incrLog
                 ELSE /\ last' = Result("AtomicIncrement", identifier, "WRONGTYPE",
                                        Int64(0), {})
                      /\ UNCHANGED <<store, incrLog>>
    /\ wire' = Sent(identifier, "INCR")
    /\ UNCHANGED <<cfgVars, psVars, backend, now, crashed, pc, memVars, storeTTL,
                   lastWritten, ttlDeadline, grants>>

\* ------------------------------------------- RedisRepository (pub/sub)
\* fullChannel := r.prefix + r.separator + KeyPartPubSubChannel + r.separator + channel
FullChannel(channel) == prefix \o separator \o KeyPartPubSubChannel \o separator \o <<channel>>

\* pubsub := r.client.Subscribe(ctx, fullChannel); ch := make(chan interface{});
\* and the routine that ranges over pubsub.Channel().  `buf` is the client
\* library's queue behind pubsub.Channel(), `hand` the payload the routine is
\* sending on the unbuffered ch (0: none), `got` what the consumer has received.
NewStream(channel, ctx) ==
    [channel |-> channel, buf |-> <<>>, got |-> <<>>, closed |-> FALSE,
     ctx |-> ctx, routine |-> "ranging", hand |-> 0, pubsub |-> "open"]

\* RedisRepository.Subscribe
RedisSubscribe(p, channel) ==
    /\ RedisCall(p)
    /\ Cardinality(DOMAIN sinks) < MaxSubs
    /\ LET ch == Cardinality(DOMAIN sinks) + 1 IN
       /\ sinks' = HistSet(sinks, ch, NewStream(channel, "live"))
       /\ last' = Result("Subscribe", NoId, "nil", [t |-> "chan", n |-> ch], {channel})
    /\ wire' = {Cmd("SUBSCRIBE", FullChannel(channel))}
    /\ UNCHANGED <<cfgVars, backend, now, crashed, pc, memVars, redisVars, histVars,
                   channels, published>>

\* the store hands a published message to an open subscription; the client
\* library queues it, and drops it when its queue is full
PubSubDeliver(stream, message) ==
    IF stream.pubsub = "open" /\ Len(stream.buf) < SinkBuffer
    THEN [stream EXCEPT !.buf = Append(@, message)]
    ELSE stream

\* RedisRepository.Publish: PUBLISH fullChannel message
RedisPublish(p, channel) ==
    /\ RedisCall(p)
    /\ published < MaxMsgs
    /\ published' = published + 1
    /\ sinks' = [s \in DOMAIN sinks |->
                   IF sinks[s].channel = channel
                   THEN PubSubDeliver(sinks[s], published + 1)
                   ELSE sinks[s]]
    /\ last' = Result("Publish", NoId, "nil", [t |-> "message", n |-> published + 1],
                      {channel})
    /\ wire' = {Cmd("PUBLISH", FullChannel(channel))}
    /\ UNCHANGED <<cfgVars, backend, now, crashed, pc, memVars, redisVars, histVars,
                   channels>>

\* the routine of Subscribe: msg received from pubsub.Channel(), now at ch <- msg.Payload
RoutineTake(ch) ==
    /\ backend = "redis"
    /\ ch \in DOMAIN sinks
    /\ sinks[ch].routine = "ranging"
    /\ sinks[ch].buf # <<>>
    /\ sinks' = [sinks EXCEPT ![ch].hand = Head(sinks[ch].buf), ![ch].buf = Tail(@),
                              ![ch].routine = "sending"]
    /\ last' = Result("take", NoId, "nil", [t |-> "chan", n |-> ch], {})
    /\ UNCHANGED <<cfgVars, wire, backend, now, crashed, pc, memVars, redisVars,
                   histVars, channels, published>>

\* the consumer receives from the stream, which lets ch <- msg.Payload return
RedisReceive(ch) ==
    /\ backend = "redis"
    /\ ch \in DOMAIN sinks
    /\ sinks[ch].routine = "sending"
    /\ sinks' = [sinks EXCEPT ![ch].got = Append(@, sinks[ch].hand), ![ch].hand = 0,
                              ![ch].routine = "ranging"]
    /\ last' = Result("receive", NoId, "nil", [t |-> "message", n |-> sinks[ch].hand], {})
    /\ UNCHANGED <<cfgVars, wire, backend, now, crashed, pc, memVars, redisVars,
                   histVars, channels, published>>

\* the routine of Subscribe: pubsub.Channel() is closed and drained, the range
\* loop ends and the deferred close(ch) runs
RoutineExit(ch) ==
    /\ backend = "redis"
    /\ ch \in DOMAIN sinks
    /\ sinks[ch].routine = "ranging"
    /\ sinks[ch].buf = <<>>
    /\ sinks[ch].pubsub = "closed"
    /\ sinks' = [sinks EXCEPT ![ch].routine = "done", ![ch].closed = TRUE]
    /\ last' = Result("exit", NoId, "nil", [t |-> "chan", n |-> ch], {})
    /\ UNCHANGED <<cfgVars, wire, backend, now, crashed, pc, memVars, redisVars,
                   histVars, channels, published>>

\* The code never calls pubsub.Close() and never reads ctx.Done().  Whether the
\* client library ends a subscription by itself when the context given to
\* client.Subscribe is cancelled is left open: either outcome is allowed.
LibraryOnCancel(ch) ==
    /\ backend = "redis"
    /\ ch \in DOMAIN sinks
    /\ sinks[ch].ctx = "cancelled"
    /\ sinks[ch].pubsub = "open"
    /\ sinks' = [sinks EXCEPT ![ch].pubsub = "closed"]
    /\ last' = Result("library", NoId, "nil", [t |-> "chan", n |-> ch], {})
    /\ UNCHANGED <<cfgVars, wire, backend, now, crashed, pc, memVars, redisVars,
                   histVars, channels, published>>

\* ------------------------------------------------------------------ time
\* The clock advances; the store drops the keys whose TTL has run out.
Tick ==
    /\ ~crashed
    /\ now < MaxTime
    /\ now' = now + 1
    /\ LET gone == {key \in DOMAIN storeTTL : storeTTL[key] <= now + 1} IN
       /\ store' = DropAll(store, gone)
       /\ storeTTL' = DropAll(storeTTL, gone)
       /\ incrLog' = HistDropAll(incrLog, IdsOfStoreKeys(gone))
    /\ grants' = [i \in DOMAIN grants |-> {g \in grants[i] : GrantLive(g, now + 1)}]
    /\ holders' = [i \in DOMAIN holders |-> {g \in holders[i] : GrantLive(g, now + 1)}]
    /\ last' = Event("Tick")
    /\ wire' = {}
    /\ UNCHANGED <<keyVars, factoryVars, twin, psVars, backend, crashed, pc, memVars, lastWritten, ttlDeadline>>

\* validateKey applied to a key as it comes: one built by createKey or
\* createKeyPattern, or one the store returned to List or Search
Validate(key, allowPattern) ==
    /\ backend = "redis"
    /\ last' = Result("validateKey", NoId, validateKey(key, allowPattern),
                      [t |-> "key", n |-> key, pattern |-> allowPattern], {})
    /\ wire' = {}
    /\ UNCHANGED <<cfgVars, psVars, backend, now, crashed, pc, memVars, redisVars, histVars>>

\* --------------------------------------------- one call on both backends
\* The same sequence of calls is given to a MemoryRepository and to a
\* RedisRepository, both fresh, under one clock: each call runs on the
\* in-process repository first, then on the networked one.
TwinOps ==
    {"Create", "Read", "Update", "Delete", "SetExpiration", "GetExpiration",
     "AcquireLock", "ReleaseLock", "AtomicIncrement"}

\* the caller picks the next call
Plan(op, identifier, d, v) ==
    /\ ~crashed
    /\ backend = "memory"
    /\ twin = NoTwin
    /\ twin' = [op |-> op, id |-> identifier, d |-> d, v |-> v, out |-> Event("none")]
    /\ last' = Event("plan")
    /\ UNCHANGED <<keyVars, factoryVars, holders, psVars, wire, backend, now, crashed, pc,
                   memVars, redisVars, histVars>>

Planned(op, identifier, d, v) ==
    /\ twin.op = op
    /\ twin.id = identifier
    /\ twin.d = d
    /\ twin.v = v

\* the in-process repository has answered: the call goes to the networked one
Handover ==
    /\ ~crashed
    /\ backend = "memory"
    /\ twin # NoTwin
    /\ last.op = twin.op
    /\ backend' = "redis"
    /\ twin' = [twin EXCEPT !.out = last]
    /\ last' = Event("handover")
    /\ UNCHANGED <<keyVars, factoryVars, holders, psVars, wire, now, crashed, pc, memVars,
                   redisVars, histVars>>

\* the two outcomes are the same success result or the same error kind
SameOutcome(a, b) ==
    /\ a.err = b.err
    /\ a.err = "nil" => a.val = b.val

\* the networked repository has answered too, and as the in-process one did:
\* the caller goes on (the comparison ends at the first answer that differs)
Return ==
    /\ backend = "redis"
    /\ twin # NoTwin
    /\ last.op = twin.op
    /\ last.err # "pending"
    /\ SameOutcome(last, twin.out)
    /\ backend' = "memory"
    /\ twin' = NoTwin
    /\ last' = Event("return")
    /\ UNCHANGED <<keyVars, factoryVars, holders, psVars, wire, now, crashed, pc, memVars,
                   redisVars, histVars>>

\* ------------------------------------------------- the store out of reach
\* the operations of RedisRepository that talk to the store, with the first
\* command each sends
FirstCommand ==
    [Create |-> "EXISTS", Read |-> "JSON.GET", Update |-> "EXISTS", Delete |-> "DEL",
     List |-> "KEYS", Search |-> "FT.SEARCH", AcquireLock |-> "SETNX", ReleaseLock |-> "DEL",
     SetExpiration |-> "EXPIRE", GetExpiration |-> "TTL", AtomicIncrement |-> "INCR",
     Publish |-> "PUBLISH", Ping |-> "PING"]
StoreOps == DOMAIN FirstCommand
Keyless == {"Search", "Publish", "Ping"}

\* what each handler returns when its first client call fails with the
\* client's error: wrapped as ErrOperationFailed, or the client's error as it is
OnClientError(op) ==
    IF op \in {"Delete", "List", "Search", "AcquireLock", "ReleaseLock"}
    THEN "ErrOperationFailed"
    ELSE "client error"

\* a handler of RedisRepository run while the store cannot be reached: the
\* key is built, the first command is sent once and fails, the handler returns
StoreFails(p, op, identifier) ==
    /\ RedisCall(p)
    /\ LET k == IF op \in Keyless THEN Keyed(prefix, "nil")
                ELSE identifierToKey(identifier, op = "List")
           key == IF op \in {"AcquireLock", "ReleaseLock"} THEN LockKey(k.key) ELSE k.key
       IN IF k.err # "nil"
          THEN /\ last' = Result(op, identifier, "ErrInvalidIdentifier", NoValue, {})
               /\ wire' = {}
          ELSE /\ last' = Result(op, identifier, OnClientError(op), [t |-> "outage", n |-> 0], {})
               /\ wire' = {Cmd(FirstCommand[op], key)}
    /\ UNCHANGED <<cfgVars, psVars, backend, now, crashed, pc, memVars, redisVars, histVars>>

\* ------------------------------------------------------------- the factory
\* RegisterDataRepository and CreateDataRepository, step by step: taking the
\* mutex, the access to the map, releasing the mutex, the constructor call.
BackendNames == {"redis", "memory", "custom"}
Constructors == {"NewRedisRepository", "NewMemoryRepository"}
\* configuration values: a RedisConfig with a connection string that parses, one
\* with fewer than nine fields, one with an unknown mode; a MemoryConfig
Configs == {"RedisConfig", "RedisConfig:short", "RedisConfig:mode", "MemoryConfig"}

\* faulty variant: readers get in while a writer holds the mutex
RLockAnyway == TRUE

\* factoryMutex.RLock() returns: no writer holds the mutex
RLockFree == factoryMutex.w = 0

\* factoryMutex.Lock() returns: nobody holds the mutex
LockFree == factoryMutex.w = 0 /\ factoryMutex.r = {}

FactoryCall(p) ==
    /\ ~crashed
    /\ fpc[p] = FIdle

FactoryFrame ==
    UNCHANGED <<keyVars, twin, holders, psVars, wire, backend, now, pc, memVars, redisVars,
                histVars>>

\* RegisterDataRepository: factoryMutex.Lock()
RegisterLock(p, name, factory) ==
    /\ FactoryCall(p)
    /\ LockFree
    /\ factoryMutex' = [factoryMutex EXCEPT !.w = p]
    /\ fpc' = [fpc EXCEPT ![p] = [op |-> "Register", at |-> "locked", name |-> name,
                                  arg |-> factory, found |-> ""]]
    /\ last' = Event("Lock")
    /\ FactoryFrame
    /\ UNCHANGED <<crashed, repositoryFactories, completed>>

\* repositoryFactories[name] = factory begins: the map is being written
RegisterStore(p) ==
    /\ ~crashed
    /\ fpc[p].op = "Register"
    /\ fpc[p].at = "locked"
    /\ fpc' = [fpc EXCEPT ![p].at = "storing"]
    /\ last' = Event("store")
    /\ FactoryFrame
    /\ UNCHANGED <<crashed, repositoryFactories, factoryMutex, completed>>

\* the assignment ends, the deferred Unlock runs, the call returns
RegisterUnlock(p) ==
    /\ ~crashed
    /\ fpc[p].op = "Register"
    /\ fpc[p].at = "storing"
    /\ repositoryFactories' = MapSet(repositoryFactories, fpc[p].name, fpc[p].arg)
    /\ completed' = HistSet(completed, fpc[p].name, fpc[p].arg)
    /\ factoryMutex' = [factoryMutex EXCEPT !.w = 0]
    /\ fpc' = [fpc EXCEPT ![p] = FIdle]
    /\ last' = Result("RegisterDataRepository", NoId, "nil",
                      [t |-> "factory", n |-> fpc[p].arg], {fpc[p].name})
    /\ FactoryFrame
    /\ UNCHANGED crashed

\* CreateDataRepository: factoryMutex.RLock()
CreateRLock(p, name, config) ==
    /\ FactoryCall(p)
    /\ RLockFree
    /\ factoryMutex' = [factoryMutex EXCEPT !.r = @ \cup {p}]
    /\ fpc' = [fpc EXCEPT ![p] = [op |-> "Create", at |-> "rlocked", name |-> name,
                                  arg |-> config, found |-> ""]]
    /\ last' = Event("RLock")
    /\ FactoryFrame
    /\ UNCHANGED <<crashed, repositoryFactories, completed>>

\* factory, ok := repositoryFactories[name], then RUnlock.  A read of the map
\* while it is being written is a data race: the runtime may abort the
\* process, or the read returns whatever it finds.
CreateLookup(p) ==
    /\ ~crashed
    /\ fpc[p].op = "Create"
    /\ fpc[p].at = "rlocked"
    /\ factoryMutex' = [factoryMutex EXCEPT !.r = @ \ {p}]
    /\ IF \E q \in Procs : fpc[q].at = "storing"
       THEN \E outcome \in {"fatal", "torn"} :
              /\ crashed' = (outcome = "fatal")
              /\ fpc' = [fpc EXCEPT ![p].at = "looked", ![p].found = "torn"]
              /\ last' = Result("lookup", NoId, outcome, [t |-> "factory", n |-> "torn"],
                                {fpc[p].name})
       ELSE LET found == IF fpc[p].name \in DOMAIN repositoryFactories
                         THEN repositoryFactories[fpc[p].name] ELSE "unknown"
            IN /\ fpc' = [fpc EXCEPT ![p].at = "looked", ![p].found = found]
               /\ last' = Result("lookup", NoId, "nil", [t |-> "factory", n |-> found],
                                 {fpc[p].name})
               /\ UNCHANGED crashed
    /\ FactoryFrame
    /\ UNCHANGED <<repositoryFactories, completed>>

\* NewRedisRepository(config), up to the client it builds
NewRedisRepository(config) ==
    CASE config = "RedisConfig" -> "nil"
      [] config = "RedisConfig:short" -> "ErrInvalidInput"
      [] config = "RedisConfig:mode" -> "ErrInvalidInput"
      [] OTHER -> "ErrInvalidInput"

\* NewMemoryRepository(config)
NewMemoryRepository(config) ==
    IF config = "MemoryConfig" THEN "nil"
    ELSE "invalid config type for Memory repository"

\* the rest of CreateDataRepository: the unknown name, or the constructor and
\* its outcome (initBaseRepository changes nothing that is modelled)
CreateConstruct(p) ==
    /\ ~crashed
    /\ fpc[p].op = "Create"
    /\ fpc[p].at = "looked"
    /\ fpc[p].found # "torn"
    /\ LET err == CASE fpc[p].found = "unknown" -> "unknown repository type"
                    [] fpc[p].found = "NewRedisRepository" -> NewRedisRepository(fpc[p].arg)
                    [] OTHER -> NewMemoryRepository(fpc[p].arg)
       IN last' = Result("CreateDataRepository", NoId, err,
                         [t |-> "repo", n |-> IF err = "nil" THEN 1 ELSE 0,
                          factory |-> fpc[p].found, config |-> fpc[p].arg],
                         {fpc[p].name})
    /\ fpc' = [fpc EXCEPT ![p] = FIdle]
    /\ FactoryFrame
    /\ UNCHANGED <<crashed, repositoryFactories, factoryMutex, completed>>

\* ------------------------------------------------------- specifications
\* one caller issuing its calls in sequence
Solo == {CHOOSE p \in Procs : \A q \in Procs : p <= q}

InitMemory == Init /\ backend = "memory"

\* Create/Read/Update/Upsert/Delete by one caller, on either backend
Next ==
    \/ \E p \in Solo, i \in Ids, v \in Docs : MemCreate(p, i, v)
    \/ \E p \in Solo, i \in Ids : MemRead(p, i, FALSE)
    \/ \E p \in Solo, i \in Ids, v \in Docs : MemUpdate(p, i, v)
    \/ \E p \in Solo, i \in Ids, v \in Docs : MemUpsert(p, i, v)
    \/ \E p \in Solo, i \in Ids : MemDelete(p, i)
    \/ \E p \in Solo, i \in Ids, v \in Docs : RedisCreateBegin(p, i, v)
    \/ \E p \in Solo : RedisCreate(p)
    \/ \E p \in Solo, i \in Ids : RedisRead(p, i)
    \/ \E p \in Solo, i \in Ids, v \in Docs : RedisUpdateBegin(p, i, v)
    \/ \E p \in Solo : RedisUpdate(p)
    \/ \E p \in Solo, i \in Ids, v \in Docs : RedisUpsert(p, i, v)
    \/ \E p \in Solo, i \in Ids : RedisDelete(p, i)

Spec == Init /\ [][Next]_vars

\* entities with a TTL in the in-process backend: callers, the sweep, the clock
NextExpire ==
    \/ \E p \in Solo, i \in Ids, v \in Docs : MemCreate(p, i, v)
    \/ \E p \in Solo, i \in Ids, c \in BOOLEAN : MemRead(p, i, c)
    \/ \E p \in Solo, i \in Ids, v \in Docs : MemUpdate(p, i, v)
    \/ \E p \in Solo, i \in Ids : MemDelete(p, i)
    \/ \E p \in Solo, i \in Patterns : MemList(p, i)
    \/ \E p \in Solo, i \in Ids, d \in TTLs : MemSetExpiration(p, i, d)
    \/ \E p \in Solo, i \in Ids : MemGetExpiration(p, i)
    \/ cleanupExpired
    \/ Tick

SpecExpire == InitMemory /\ [][NextExpire]_vars

\* counters: concurrent AtomicIncrement callers, one caller creating and deleting
NextIncr ==
    \/ \E p \in Procs, i \in Ids : MemAtomicIncrement(p, i)
    \/ \E p \in Solo, i \in Ids, v \in Docs : MemCreate(p, i, v)
    \/ \E p \in Solo, i \in Ids : MemDelete(p, i)
    \/ \E p \in Procs, i \in Ids : RedisAtomicIncrement(p, i)
    \/ \E p \in Solo, i \in Ids, v \in Docs : RedisCreateBegin(p, i, v)
    \/ \E p \in Solo : RedisCreate(p)
    \/ \E p \in Solo, i \in Ids : RedisDelete(p, i)

SpecIncr == Init /\ [][NextIncr]_vars

\* the lock table: concurrent callers and the clock, on either backend
NextLock ==
    \/ \E p \in Procs, i \in Ids, d \in TTLs : MemAcquireLock(p, i, d)
    \/ \E p \in Procs, i \in Ids : MemReleaseLock(p, i)
    \/ \E p \in Procs, i \in Ids, d \in TTLs : RedisAcquireLock(p, i, d)
    \/ \E p \in Procs, i \in Ids : RedisReleaseLock(p, i)
    \/ Tick

SpecLock == Init /\ [][NextLock]_vars

\* the locks of either backend with the callers' own account of what they hold
InitHolders ==
    /\ InitState
    /\ prefix = DefaultKeyPrefix
    /\ separator = DefaultKeySeparator
    /\ holders = [i \in Ids |-> {}]

SpecHolders == InitHolders /\ [][NextLock]_vars

\* publish/subscribe in the in-process backend: callers, contexts, cleanup routines
NextPubSub ==
    \/ \E p \in Solo, c \in ChannelNames : MemPublish(p, c)
    \/ \E p \in Solo, c \in ChannelNames, x \in {"live", "cancelled"} : MemSubscribe(p, c, x)
    \/ \E ch \in SinkIds : CancelContext(ch)
    \/ \E ch \in SinkIds : SubscribeCleanup(ch)
    \/ \E p \in Solo : MemClose(p)
    \/ \E ch \in SinkIds : Receive(ch)

SpecPubSub == InitMemory /\ [][NextPubSub]_vars

\* publishing, subscribing, cancelling and closing; what a consumer takes from
\* its sink is left out, as the cleanup routine never looks at it
NextCancel ==
    \/ \E p \in Solo, c \in ChannelNames : MemPublish(p, c)
    \/ \E p \in Solo, c \in ChannelNames, x \in {"live", "cancelled"} : MemSubscribe(p, c, x)
    \/ \E ch \in SinkIds : CancelContext(ch)
    \/ \E ch \in SinkIds : SubscribeCleanup(ch)
    \/ \E p \in Solo : MemClose(p)

\* the Go scheduler runs a routine that is ready: a cleanup routine whose
\* context is done gets the lock
SpecPubSubFair ==
    InitMemory /\ [][NextCancel]_vars /\ \A ch \in SinkIds : WF_vars(SubscribeCleanup(ch))

InitRedis == Init /\ backend = "redis"

\* publish/subscribe in the networked backend
NextRedisPubSub ==
    \/ \E p \in Solo, c \in ChannelNames : RedisSubscribe(p, c)
    \/ \E p \in Solo, c \in ChannelNames : RedisPublish(p, c)
    \/ \E ch \in SinkIds : CancelContext(ch)
    \/ \E ch \in SinkIds : RoutineTake(ch)
    \/ \E ch \in SinkIds : RedisReceive(ch)
    \/ \E ch \in SinkIds : RoutineExit(ch)
    \/ \E ch \in SinkIds : LibraryOnCancel(ch)

SpecRedisPubSub == InitRedis /\ [][NextRedisPubSub]_vars

\* the Go scheduler runs the routine of Subscribe whenever it can take a step;
\* the consumer and the client library are under no obligation
SpecRedisPubSubFair ==
    /\ SpecRedisPubSub
    /\ \A ch \in SinkIds : WF_vars(RoutineTake(ch)) /\ WF_vars(RoutineExit(ch))

\* NewRedisRepository with the key options of the RedisConfig
InitCodec ==
    /\ InitState
    /\ backend = "redis"
    /\ prefix \in KeyPrefixes
    /\ separator \in KeySeparators
    /\ holders = EmptyMap

\* the key codec as a function: encode, then decode what was encoded
NextCodec ==
    \/ \E i \in CodecIds, allowPattern \in BOOLEAN : Encode(i, allowPattern)
    \/ Decode

SpecCodec == InitCodec /\ [][NextCodec]_vars

\* every key-bearing operation of the networked backend, by one caller, on the
\* identifiers of `ids`
KeyOps(ids) ==
    \/ \E p \in Solo, i \in ids : RedisCreateBegin(p, i, Doc(1))
    \/ \E p \in Solo : RedisCreate(p)
    \/ \E p \in Solo, i \in ids : RedisRead(p, i)
    \/ \E p \in Solo, i \in ids : RedisUpdateBegin(p, i, Doc(1))
    \/ \E p \in Solo : RedisUpdate(p)
    \/ \E p \in Solo, i \in ids : RedisDelete(p, i)
    \/ \E p \in Solo, i \in ids : RedisList(p, i)
    \/ \E p \in Solo, i \in ids : RedisAcquireLock(p, i, MaxTTL)
    \/ \E p \in Solo, i \in ids : RedisReleaseLock(p, i)
    \/ \E p \in Solo, i \in ids : RedisSetExpiration(p, i, MaxTTL)
    \/ \E p \in Solo, i \in ids : RedisGetExpiration(p, i)
    \/ \E p \in Solo, i \in ids : RedisAtomicIncrement(p, i)

\* on identifiers that validate and identifiers that do not
NextKeys == KeyOps(KeyIds)

SpecKeys == InitRedis /\ [][NextKeys]_vars

\* Search on either backend, over entities and counters one caller stored
Queries == {<<>>, <<"1">>}
Offsets == (0 - 1)..MaxOffset
Limits == ((0 - 1)..MaxLimit) \cup {MaxInt}
SortBys == {"name"}
SortDirs == {"ASC", "DESC"}

NextSearch ==
    \/ \E p \in Solo, i \in Ids, v \in Docs : MemCreate(p, i, v)
    \/ \E p \in Solo, i \in Ids : MemAtomicIncrement(p, i)
    \/ \E p \in Solo, i \in Ids : MemDelete(p, i)
    \/ \E p \in Solo, q \in Queries, o \in Offsets, l \in Limits, by \in SortBys, dir \in SortDirs :
          MemSearch(p, q, o, l, by, dir)
    \/ \E p \in Solo, i \in Ids : RedisCreateBegin(p, i, Doc(1))
    \/ \E p \in Solo : RedisCreate(p)
    \/ \E p \in Solo, i \in Ids : RedisDelete(p, i)
    \/ \E p \in Solo, q \in Queries, o \in Offsets, l \in Limits, by \in SortBys, dir \in SortDirs :
          RedisSearch(p, q, o, l, by, dir)

SpecSearch == Init /\ [][NextSearch]_vars

\* List in the in-process backend, over identifiers of which one is a suffix
\* and one a prefix of another
ListIds ==
    {RedisIdentifier(<<"u">>, <<"1">>), RedisIdentifier(<<"u">>, <<"1", "2">>),
     RedisIdentifier(<<"x", "u">>, <<"1">>)}

NextList ==
    \/ \E p \in Solo, i \in ListIds, v \in Docs : MemCreate(p, i, v)
    \/ \E p \in Solo, i \in ListIds : MemDelete(p, i)
    \/ \E p \in Solo, pattern \in Patterns : MemList(p, pattern)

SpecList == InitMemory /\ [][NextList]_vars

\* concurrent registrations and creations on the registry
NextFactory ==
    \/ \E p \in Procs, name \in {"memory", "custom"}, factory \in Constructors :
          RegisterLock(p, name, factory)
    \/ \E p \in Procs : RegisterStore(p)
    \/ \E p \in Procs : RegisterUnlock(p)
    \/ \E p \in Procs, name \in BackendNames, config \in Configs : CreateRLock(p, name, config)
    \/ \E p \in Procs : CreateLookup(p)
    \/ \E p \in Procs : CreateConstruct(p)

SpecFactory == InitMemory /\ [][NextFactory]_vars

\* the networked backend with a store that is reached at times and not at others
NextOutage ==
    \/ \E p \in Solo, i \in Ids, v \in Docs : RedisCreateBegin(p, i, v)
    \/ \E p \in Solo : RedisCreate(p)
    \/ \E p \in Solo, i \in Ids : RedisDelete(p, i)
    \/ \E p \in Solo, op \in StoreOps \ Keyless, i \in KeyIds : StoreFails(p, op, i)
    \/ \E p \in Solo, op \in Keyless : StoreFails(p, op, NoId)

SpecOutage == InitRedis /\ [][NextOutage]_vars

\* one caller, one identifier, both backends in turn, the sweep and the clock
TwinId == RedisIdentifier(<<"u">>, <<"1">>)
NextTwin ==
    \/ \E op \in TwinOps, d \in TTLs :
          Plan(op, TwinId, IF op \in {"SetExpiration", "AcquireLock"} THEN d ELSE 0,
               IF op \in {"Create", "Update"} THEN Doc(1) ELSE NoValue)
    \/ \E p \in Solo :
          /\ last.op = "plan"
          /\ \/ Planned("Create", twin.id, 0, twin.v) /\ MemCreate(p, twin.id, twin.v)
             \/ Planned("Read", twin.id, 0, NoValue) /\ MemRead(p, twin.id, FALSE)
             \/ Planned("Update", twin.id, 0, twin.v) /\ MemUpdate(p, twin.id, twin.v)
             \/ Planned("Delete", twin.id, 0, NoValue) /\ MemDelete(p, twin.id)
             \/ Planned("SetExpiration", twin.id, twin.d, NoValue)
                  /\ MemSetExpiration(p, twin.id, twin.d)
             \/ Planned("GetExpiration", twin.id, 0, NoValue) /\ MemGetExpiration(p, twin.id)
             \/ Planned("AcquireLock", twin.id, twin.d, NoValue)
                  /\ MemAcquireLock(p, twin.id, twin.d)
             \/ Planned("ReleaseLock", twin.id, 0, NoValue) /\ MemReleaseLock(p, twin.id)
             \/ Planned("AtomicIncrement", twin.id, 0, NoValue)
                  /\ MemAtomicIncrement(p, twin.id)
    \/ Handover
    \/ \E p \in Solo :
          /\ last.op = "handover"
          /\ \/ Planned("Create", twin.id, 0, twin.v) /\ RedisCreateBegin(p, twin.id, twin.v)
             \/ Planned("Read", twin.id, 0, NoValue) /\ RedisRead(p, twin.id)
             \/ Planned("Update", twin.id, 0, twin.v) /\ RedisUpdateBegin(p, twin.id, twin.v)
             \/ Planned("Delete", twin.id, 0, NoValue) /\ RedisDelete(p, twin.id)
             \/ Planned("SetExpiration", twin.id, twin.d, NoValue)
                  /\ RedisSetExpiration(p, twin.id, twin.d)
             \/ Planned("GetExpiration", twin.id, 0, NoValue) /\ RedisGetExpiration(p, twin.id)
             \/ Planned("AcquireLock", twin.id, twin.d, NoValue)
                  /\ RedisAcquireLock(p, twin.id, twin.d)
             \/ Planned("ReleaseLock", twin.id, 0, NoValue) /\ RedisReleaseLock(p, twin.id)
             \/ Planned("AtomicIncrement", twin.id, 0, NoValue)
                  /\ RedisAtomicIncrement(p, twin.id)
    \/ \E p \in Solo : RedisCreate(p)
    \/ \E p \in Solo : RedisUpdate(p)
    \/ Return
    \/ twin = NoTwin /\ cleanupExpired
    \/ twin = NoTwin /\ Tick

SpecTwin == InitMemory /\ [][NextTwin]_vars

\* validateKey as a function, on keys that break no rule, one rule, several rules
RawHeads == {DefaultKeyPrefix, <<"d", "b">>, <<"x">>}
RawTails ==
    {<<>>, <<<<"u">>>>, <<<<"u">>, <<"1">>>>, <<<<>>, <<"1">>>>, <<<<"u">>, <<>>>>,
     <<<<"u", "!">>, <<"1">>>>, <<<<"u">>, <<"*">>>>, <<<<"!">>>>, <<<<>>, <<"!">>>>}
RawKeys ==
    {Join(<<head>> \o tail, sep) : head \in RawHeads, tail \in RawTails, sep \in KeySeparators}
    \cup {DefaultKeyPrefix \o DefaultKeySeparator \o <<"u">> \o DefaultKeySeparator \o LongID
            \o <<c>> : c \in {"x", "!"}}

NextValidate == \E key \in RawKeys, allowPattern \in BOOLEAN : Validate(key, allowPattern)

SpecValidate == InitCodec /\ [][NextValidate]_vars

\* keys of the store with three segments after the prefix, or with a first
\* segment the entity-prefix rule refuses
DeepTails == {<<<<"u">>, <<"1">>, <<"2">>>>, <<<<"1", "u">>, <<"1">>>>, <<<<"u", "1">>>>}
StoredKeys ==
    RawKeys \cup {Join(<<head>> \o tail, sep) :
                      head \in KeyPrefixes, tail \in DeepTails, sep \in KeySeparators}

\* the key codec from the store's side: decode a stored key, encode the result
NextRecode ==
    \/ \E key \in StoredKeys : DecodeKey(key)
    \/ Reencode

SpecRecode == InitCodec /\ [][NextRecode]_vars

\* an entity, and an identifier whose ID ends in the separator and KeyPartLock
LockLikeIds ==
    {RedisIdentifier(<<"u">>, <<"1">>),
     RedisIdentifier(<<"u">>, <<"1">> \o DefaultKeySeparator \o KeyPartLock)}

\* entity and lock operations of the networked backend on those identifiers
NextLockKeys ==
    \/ \E p \in Solo, i \in LockLikeIds : RedisCreateBegin(p, i, Doc(1))
    \/ \E p \in Solo : RedisCreate(p)
    \/ \E p \in Solo, i \in LockLikeIds : RedisRead(p, i)
    \/ \E p \in Solo, i \in LockLikeIds : RedisUpdateBegin(p, i, Doc(1))
    \/ \E p \in Solo : RedisUpdate(p)
    \/ \E p \in Solo, i \in LockLikeIds : RedisDelete(p, i)
    \/ \E p \in Solo, i \in LockLikeIds : RedisAcquireLock(p, i, 0)
    \/ \E p \in Solo, i \in LockLikeIds : RedisReleaseLock(p, i)

SpecLockKeys == InitRedis /\ [][NextLockKeys]_vars

\* several callers of the networked backend creating, reading and deleting the
\* same entities
NextRace ==
    \/ \E p \in Procs, i \in Ids, v \in Docs : RedisCreateBegin(p, i, v)
    \/ \E p \in Procs : RedisCreate(p)
    \/ \E p \in Procs, i \in Ids : RedisRead(p, i)
    \/ \E p \in Procs, i \in Ids : RedisDelete(p, i)

SpecRace == InitRedis /\ [][NextRace]_vars

\* writers on entities with a TTL in the in-process backend: the callers, the
\* lazy eviction of Read, the sweep, the clock
NextStale ==
    \/ \E p \in Solo, i \in Ids : MemCreate(p, i, Doc(1))
    \/ \E p \in Solo, i \in Ids : MemRead(p, i, FALSE)
    \/ \E p \in Solo, i \in Ids : MemUpdate(p, i, Doc(1))
    \/ \E p \in Solo, i \in Ids : MemDelete(p, i)
    \/ \E p \in Solo, i \in Ids : MemAtomicIncrement(p, i)
    \/ \E p \in Solo, i \in Ids, d \in TTLs : MemSetExpiration(p, i, d)
    \/ \E p \in Solo, i \in Ids : MemGetExpiration(p, i)
    \/ cleanupExpired
    \/ Tick

SpecStale == InitMemory /\ [][NextStale]_vars

\* on the longest identifier that validates
NextLongKeys == KeyOps(LongKeyIds)

SpecLongKeys == InitRedis /\ [][NextLongKeys]_vars

\* ---------------------------------------------------------------- claims
\* the identifier has an entry in the backend's keyspace
HasEntry(identifier) ==
    IF backend = "memory"
    THEN String(identifier) \in DOMAIN data
    ELSE identifierToKey(identifier, FALSE).key \in DOMAIN store

\* the stored value of the identifier
Stored(identifier) ==
    IF backend = "memory"
    THEN data[String(identifier)]
    ELSE store[identifierToKey(identifier, FALSE).key]

\* the step is the first step of a call: no call is in flight before it
CallBegins == \A p \in Procs : pc[p] = Idle

\* the TTL set on the current entity of the identifier has run out
TTLElapsed(identifier) ==
    identifier \in DOMAIN ttlDeadline /\ now > ttlDeadline[identifier]

\* C1: with no expiration set, in either backend, Create on an identifier that
\* has an entry fails with AlreadyExists, and Read, Update and Delete on an
\* identifier that has no entry fail with NotFound.
C1_PresenceErrors ==
    [][/\ (CallBegins /\ last'.op = "Create" /\ HasEntry(last'.id))
            => last'.err = "ErrAlreadyExists"
       /\ (CallBegins /\ last'.op \in {"Read", "Update", "Delete"} /\ ~HasEntry(last'.id))
            => last'.err = "ErrNotFound"]_vars

\* C1 witness: a second Create of an identifier was refused by the networked backend
C1_Witness ==
    /\ backend = "redis"
    /\ last.op = "Create"
    /\ last.err = "ErrAlreadyExists"
    /\ HasEntry(last.id)

\* C2: in the in-process backend a successful Read returns the value of the
\* most recent successful Create or Update of the identifier; a Create, Update
\* or Delete that fails leaves every stored value unchanged; a Read that
\* follows a successful Delete fails with NotFound.
C2_ReadReturnsLastWrite ==
    [][backend = "memory" =>
        /\ (last'.op = "Read" /\ last'.err = "nil" /\ last'.id \in DOMAIN lastWritten)
             => last'.val = lastWritten[last'.id]
        /\ (last'.op \in {"Create", "Update", "Delete"} /\ last'.err # "nil")
             => data' = data
        /\ (last.op = "Delete" /\ last.err = "nil" /\ last'.op = "Read" /\ last'.id = last.id)
             => last'.err = "ErrNotFound"]_vars

\* C2 witness: a successful Read returned the last value written to its
\* identifier while the other identifier holds a different value
C2_Witness ==
    /\ backend = "memory"
    /\ last.op = "Read"
    /\ last.err = "nil"
    /\ last.id \in DOMAIN lastWritten
    /\ last.val = Doc(2)
    /\ \E i \in Ids \ {last.id} : HasEntry(i) /\ Stored(i) = Doc(1)

\* C3: in the in-process backend AcquireLock returns true exactly when no
\* earlier successful acquisition of the identifier is still within its TTL
\* and unreleased: true on a free lock, false before the TTL has elapsed, true
\* again once it has elapsed or after ReleaseLock.
C3_AcquireIffFree ==
    [][(backend = "memory" /\ last'.op = "AcquireLock")
        => (last'.val.n = 1 <=> LiveGrants(last'.id, now) = {})]_vars

\* C3 witness: a second AcquireLock was refused while the first one's TTL ran
C3_Witness ==
    /\ backend = "memory"
    /\ last.op = "AcquireLock"
    /\ last.val.n = 0
    /\ LiveGrants(last.id, now) # {}

\* C4: in either backend, of the AcquireLock calls on an identifier that
\* returned true, at most one has a lock record that has not expired.
C4_OneHolder ==
    \A i \in Ids : Cardinality(LiveGrants(i, now)) <= 1

\* C4 witness: in the networked backend a lock with a TTL is held after time
\* has passed and a further AcquireLock on it was refused
C4_Witness ==
    /\ backend = "redis"
    /\ last.op = "AcquireLock"
    /\ last.val.n = 0
    /\ now > 0
    /\ \E g \in LiveGrants(last.id, now) : ~g.forever

\* C5: ReleaseLock fails with NotFound exactly when no lock is held on the
\* identifier (never acquired, released, or its TTL elapsed), and otherwise succeeds.
C5_ReleaseNotFoundIffFree ==
    [][last'.op = "ReleaseLock"
        => (last'.err = "ErrNotFound" <=> LiveGrants(last'.id, now) = {})]_vars

\* C6: in the in-process backend, once the TTL set by SetExpiration has
\* elapsed, every Read of the identifier fails with NotFound, whether the sweep
\* or an earlier Read has evicted the record or not.
C6_ReadAfterTTL ==
    [][(last'.op = "Read" /\ TTLElapsed(last'.id)) => last'.err = "ErrNotFound"]_vars

\* C6 witness: a Read found the expired record before any sweep and evicted it
C6_Witness ==
    /\ last.op = "Read"
    /\ last.err = "ErrNotFound"
    /\ TTLElapsed(last.id)
    /\ \E i \in Ids \ {last.id} : TTLElapsed(i) /\ String(i) \in DOMAIN expiries

\* C7: GetExpiration fails with NotFound once the TTL set by SetExpiration has
\* elapsed, and before that returns the remaining, non-negative duration.
C7_GetExpirationAfterTTL ==
    [][(last'.op = "GetExpiration" /\ last'.id \in DOMAIN ttlDeadline)
        => IF TTLElapsed(last'.id)
           THEN last'.err = "ErrNotFound"
           ELSE /\ last'.err = "nil"
                /\ last'.val.n = ttlDeadline[last'.id] - now
                /\ last'.val.n >= 0]_vars

\* C8: in the in-process backend List never returns an identifier whose TTL has elapsed.
C8_ListSkipsExpired ==
    last.op = "List" => \A i \in Ids : TTLElapsed(i) => String(i) \notin last.ids

\* C9: on a fresh identifier the AtomicIncrement calls, sequential or
\* concurrent, return 1, 2, ..., N with no duplicate and no gap, and the
\* stored counter is N.
C9_IncrementSequence ==
    \A i \in DOMAIN incrLog :
        /\ incrLog[i].vals = [k \in 1..Len(incrLog[i].vals) |-> k]
        /\ HasEntry(i)
        /\ Stored(i).n = Len(incrLog[i].vals)

\* C9 witness: every caller incremented the fresh identifier once
C9_Witness ==
    \E i \in DOMAIN incrLog :
        /\ incrLog[i].callers = Procs
        /\ Len(incrLog[i].vals) = NumProcs

\* C10: in either backend AtomicIncrement on an identifier whose stored value
\* is not an integer counter fails with InvalidInput and leaves the value unchanged.
C10_IncrementOnEntity ==
    [][(last'.op = "AtomicIncrement" /\ HasEntry(last'.id) /\ Stored(last'.id).t = "doc")
        => /\ last'.err = "ErrInvalidInput"
           /\ data' = data
           /\ store' = store]_vars

\* the sink is in the slice of its channel
IsRegistered(ch) == ch \in SinksIn(Registered(sinks[ch].channel))

\* C11: in the in-process backend Publish delivers the message to every
\* subscriber registered on the channel before the call, still active and with
\* buffer space, and a subscriber whose context was cancelled before the call
\* receives nothing from it.
C11_PublishDelivery ==
    [][last'.op = "Publish" =>
        \A ch \in DOMAIN sinks :
          /\ (/\ sinks[ch].channel \in last'.ids
              /\ IsRegistered(ch)
              /\ sinks[ch].ctx = "live"
              /\ Len(sinks[ch].buf) < SinkBuffer)
               => sinks'[ch].got = Append(sinks[ch].got, last'.val.n)
          /\ sinks[ch].ctx = "cancelled" => sinks'[ch].got = sinks[ch].got]_vars

\* C12: in the in-process backend Publish never blocks and always succeeds: a
\* subscriber whose buffer is full misses the message, every other subscriber
\* of the channel with buffer space receives it, and no sink gets a message twice.
C12_PublishNonBlocking ==
    [][/\ last'.op # "panic"
       /\ last'.op = "Publish" =>
            /\ last'.err = "nil"
            /\ \A ch \in DOMAIN sinks :
                 /\ (sinks[ch].channel \in last'.ids /\ IsRegistered(ch)) =>
                      IF Len(sinks[ch].buf) < SinkBuffer
                      THEN sinks'[ch].got = Append(sinks[ch].got, last'.val.n)
                      ELSE sinks'[ch] = sinks[ch]
                 /\ \A i, j \in 1..Len(sinks'[ch].got) :
                      sinks'[ch].got[i] = sinks'[ch].got[j] => i = j]_vars

\* C12 witness: a Publish found one subscriber's buffer full, which missed the
\* message, while another subscriber of the same channel received it
C12_Witness ==
    /\ last.op = "Publish"
    /\ \E full, other \in DOMAIN sinks :
         /\ full # other
         /\ sinks[full].channel \in last.ids
         /\ sinks[other].channel \in last.ids
         /\ Len(sinks[full].buf) = SinkBuffer
         /\ \A i \in 1..Len(sinks[full].got) : sinks[full].got[i] # last.val.n
         /\ sinks[other].got # <<>>
         /\ sinks[other].got[Len(sinks[other].got)] = last.val.n

\* C13: in the in-process backend, once the context given to Subscribe is
\* cancelled (also when it was cancelled before Subscribe), the sink is
\* eventually out of the channel registry and its stream is eventually closed,
\* given that the cleanup routine is scheduled.
C13_CancelledEventuallyClosed ==
    \A ch \in SinkIds :
        (ch \in DOMAIN sinks /\ sinks[ch].ctx = "cancelled")
            ~> (ch \in DOMAIN sinks /\ sinks[ch].closed /\ ~IsRegistered(ch))

\* C13 witness: the cleanup routine of a cancelled subscriber has just removed
\* and closed its sink while another subscriber is still registered
C13_Witness ==
    /\ last.op = "cleanup"
    /\ sinks[last.val.n].ctx = "cancelled"
    /\ sinks[last.val.n].closed
    /\ ~IsRegistered(last.val.n)
    /\ \E other \in DOMAIN sinks : IsRegistered(other) /\ ~sinks[other].closed

\* C15: in the in-process backend Close closes every sink registered on every
\* channel and empties the registry, and a Publish after it delivers to no sink
\* that was closed.
C15_CloseClosesAll ==
    [][/\ last'.op = "Close" =>
            /\ \A c \in DOMAIN channels : \A i \in 1..Len(channels[c]) :
                   sinks'[channels[c][i]].closed
            /\ DOMAIN channels' = {}
       /\ last'.op = "Publish" =>
            \A ch \in DOMAIN sinks : sinks[ch].closed => sinks'[ch] = sinks[ch]]_vars

\* C15 witness: Close has just closed two subscribers whose contexts are live,
\* on two channels
C15_Witness ==
    /\ last.op = "Close"
    /\ DOMAIN channels = {}
    /\ \E s1, s2 \in DOMAIN sinks :
         /\ sinks[s1].channel # sinks[s2].channel
         /\ sinks[s1].closed /\ sinks[s1].ctx = "live"
         /\ sinks[s2].closed /\ sinks[s2].ctx = "live"

\* C14: in the networked backend, once the caller's context is cancelled the
\* stream returned by Subscribe is closed and the store subscription is
\* released, even if the consumer has stopped reading.
C14_StreamEndsOnCancel ==
    \A ch \in SinkIds :
        (backend = "redis" /\ ch \in DOMAIN sinks /\ sinks[ch].ctx = "cancelled")
            ~> (ch \in DOMAIN sinks /\ sinks[ch].closed /\ sinks[ch].pubsub = "closed")

\* the character sequence holds one of the characters
HasChar(str, chars) == \E i \in 1..Len(str) : str[i] \in chars

\* C16: for every Structured identifier whose prefix matches the entity-prefix
\* rule, whose id contains no separator and whose key passes validation,
\* keyToIdentifier(identifierToKey(identifier)) is the identifier.
C16_RoundTrip ==
    (/\ last.op = "keyToIdentifier"
     /\ last.val.t = "key"
     /\ \A o \in last.ids :
          /\ o.kind = "RedisIdentifier"
          /\ validateEntityPrefix(o.EntityPrefix) = "nil"
          /\ ~HasChar(o.ID, {separator[1]}))
        => (last.err = "nil" /\ last.id \in last.ids)

\* the characters of an identifier, all parts together
CharsOf(identifier) == identifier.EntityPrefix \o identifier.ID

\* the key the codec assembles before it validates it
Assembled(identifier) ==
    IF identifier.kind = "RedisIdentifier"
    THEN Join(<<prefix, identifier.EntityPrefix, identifier.ID>>, separator)
    ELSE Join(<<prefix, identifier.ID>>, separator)

\* C19: identifierToKey in pattern mode accepts the wildcards * and ? in the
\* identifier for every identifier variant, Structured and Simple; in exact
\* mode a key that contains * or ? is refused for its characters.
C19_PatternMode ==
    last.op = "identifierToKey" =>
        /\ (/\ last.val.t = "pattern"
            /\ AllIn(CharsOf(last.id), validKeyPatternChars))
             => last.err \notin {"ErrInvalidKeyChars", "ErrInvalidKeyPatternChars"}
        /\ (/\ last.val.t = "key"
            /\ HasChar(Assembled(last.id), {"*", "?"})
            /\ Len(Assembled(last.id)) \in MinKeyLength..MaxKeyLength
            /\ (last.id.kind = "RedisIdentifier"
                  => validateEntityPrefix(last.id.EntityPrefix) = "nil"))
             => last.err = "ErrInvalidKeyChars"

\* the operations that take an identifier to a key of the store
KeyBearing ==
    {"Create", "Read", "Update", "Delete", "List", "AcquireLock", "ReleaseLock",
     "SetExpiration", "GetExpiration", "AtomicIncrement"}

\* the identifier fails the entity-prefix rule, or holds a character outside
\* the set the operation admits (the pattern set for List)
FailsValidation(identifier, op) ==
    \/ /\ identifier.kind = "RedisIdentifier"
       /\ validateEntityPrefix(identifier.EntityPrefix) # "nil"
    \/ ~AllIn(Assembled(identifier),
              IF op = "List" THEN validKeyPatternChars ELSE validKeyChars)

\* C17: in the networked backend every key-bearing operation on an identifier
\* that fails entity-prefix or character-set validation fails with
\* InvalidIdentifier, sends no command to the store and leaves the store unchanged.
C17_InvalidIdentifierIsLocal ==
    [][(/\ CallBegins
        /\ last'.op \in KeyBearing
        /\ FailsValidation(last'.id, last'.op))
         => /\ last'.err = "ErrInvalidIdentifier"
            /\ wire' = {}
            /\ store' = store
            /\ storeTTL' = storeTTL]_vars

\* C17 witness: with an entity and a lock in the store, AcquireLock on an
\* identifier with a refused character has failed without sending anything
C17_Witness ==
    /\ last.op = "AcquireLock"
    /\ last.err = "ErrInvalidIdentifier"
    /\ FailsValidation(last.id, last.op)
    /\ wire = {}
    /\ \E key \in DOMAIN store : store[key].t = "doc"
    /\ \E key \in DOMAIN store : store[key].t = "string"

\* the physical-key invariants of the data model
KeyInvariant(key, pattern) ==
    /\ Len(key) >= MinKeyLength
    /\ Len(key) <= MaxKeyLength
    /\ AllIn(key, IF pattern THEN validKeyPatternChars ELSE validKeyChars)
    /\ HasPrefix(key, prefix \o separator)
    /\ \A i \in 1..Len(Split(key, separator)) : Split(key, separator)[i] # <<>>

\* C18: every key a key-bearing operation of the networked backend sends to the
\* store, the lock key of AcquireLock and ReleaseLock included, satisfies the
\* physical-key invariants (* and ? only in the pattern of List).
C18_SentKeysAreValid ==
    last.op \in KeyBearing =>
        \A c \in wire : KeyInvariant(c.key, c.cmd = "KEYS")

\* C20: Search fails with InvalidInput whenever offset or limit is negative, in
\* both backends, and in the networked backend no search command is sent to
\* the store for a negative offset or limit.
C20_NegativePageIsLocal ==
    (/\ last.op = "Search"
     /\ \/ last.val.args.offset < 0
        \/ last.val.args.limit < 0)
      => /\ last.err = "ErrInvalidInput"
         /\ wire = {}

\* C21: in the in-process backend List(pattern) returns exactly the stored
\* identifiers whose whole canonical string matches the pattern, * standing for
\* any run of characters; identifiers of which the pattern is only a substring
\* are never returned.
C21_ListWholeMatch ==
    last.op = "List" =>
        last.ids = {key \in DOMAIN data : GlobMatch(String(last.id), key)}

\* the position of a key among the matching keys, in the order asked for
RankIn(matching, key, sortDir) ==
    Cardinality({k \in matching :
                   IF sortDir = "DESC" THEN StringLess(key, k) ELSE StringLess(k, key)})

\* page is entries offset .. min(offset + limit, n) - 1 of the n matching keys
IsPage(page, matching, args) ==
    LET n == Cardinality(matching)
        hi == IF args.offset + args.limit < n THEN args.offset + args.limit ELSE n
    IN /\ Len(page) = IF args.offset >= n THEN 0 ELSE hi - args.offset
       /\ \A i \in 1..Len(page) :
            /\ page[i] \in matching
            /\ RankIn(matching, page[i], args.sortDir) = args.offset + i - 1

\* C22: in the in-process backend, Search with non-negative offset and limit
\* returns the slice [offset, min(offset+limit, n)) of the n entries whose value
\* contains the query, ordered by key (descending when sortDir is DESC).
C22_SearchPage ==
    (/\ backend = "memory"
     /\ last.op = "Search"
     /\ last.val.args.offset >= 0
     /\ last.val.args.limit >= 0)
      => /\ last.err = "nil"
         /\ IsPage(last.val.n,
                   {key \in DOMAIN data : Contains(Sprintv(data[key]), last.val.args.query)},
                   last.val.args)

\* C23: CreateDataRepository fails with an OperationFailed-class error when the
\* name is not registered, and with InvalidInput when the constructor of the
\* named backend is given a configuration of another type; in both cases no
\* repository is returned.
C23_FactoryErrors ==
    last.op = "CreateDataRepository" =>
        /\ last.val.factory = "unknown"
             => last.err = "ErrOperationFailed" /\ last.val.n = 0
        /\ (last.val.factory = "NewRedisRepository" /\ last.val.config = "MemoryConfig")
             => last.err = "ErrInvalidInput" /\ last.val.n = 0
        /\ (last.val.factory = "NewMemoryRepository" /\ last.val.config # "MemoryConfig")
             => last.err = "ErrInvalidInput" /\ last.val.n = 0

\* C24: the registry is last-write-wins under any interleaving: a lookup gives
\* "unknown" when no registration under the name has returned, else the
\* constructor of the latest one that has, never a torn value; a registration
\* leaves the other names as they were.
C24_RegistryLastWriteWins ==
    [][/\ \A p \in Procs :
            (fpc[p].at = "rlocked" /\ fpc'[p].at = "looked")
              => fpc'[p].found = IF fpc[p].name \in DOMAIN completed
                                 THEN completed[fpc[p].name] ELSE "unknown"
       /\ \A p \in Procs :
            (fpc[p].at = "storing" /\ fpc'[p] = FIdle)
              => /\ repositoryFactories'[fpc[p].name] = fpc[p].arg
                 /\ \A other \in BackendNames \ {fpc[p].name} :
                      /\ other \in DOMAIN repositoryFactories' <=> other \in DOMAIN repositoryFactories
                      /\ other \in DOMAIN repositoryFactories
                           => repositoryFactories'[other] = repositoryFactories[other]]_vars

\* C24 witness: while one caller is inside a registration under "memory",
\* another has looked "custom" up and found the constructor registered before
C24_Witness ==
    \E p, q \in Procs :
        /\ fpc[p].op = "Register" /\ fpc[p].name = "memory"
        /\ fpc[q].at = "looked" /\ fpc[q].name = "custom"
        /\ fpc[q].found = "NewRedisRepository"
        /\ repositoryFactories["memory"] = "NewRedisRepository"

\* C25: every failure of a networked-backend operation caused by store
\* connectivity is surfaced as OperationFailed, and the operation is attempted
\* once.
C25_OutageIsOperationFailed ==
    last.val.t = "outage" =>
        /\ last.err = "ErrOperationFailed"
        /\ Cardinality(wire) = 1

\* C26: for any sequence of Create, Read, Update, Delete, SetExpiration,
\* GetExpiration, AcquireLock, ReleaseLock and AtomicIncrement calls with
\* elapsing time on a valid Structured identifier, the in-process backend and
\* the networked backend return the same outcome at every step: the same
\* success result or the same error kind.
C26_BackendsAgree ==
    (/\ backend = "redis"
     /\ twin # NoTwin
     /\ last.op = twin.op
     /\ last.err # "pending")
      => /\ last.err = twin.out.err
         /\ last.err = "nil" => last.val = twin.out.val

\* C27: in the in-process backend the operations that hold the mutex in shared
\* mode (Read, List, Search, GetExpiration) write no map, so two of them
\* running at once never race on a map write.
C27_SharedModeWritesNothing ==
    [][(/\ backend = "memory"
        /\ last'.op \in {"Read", "List", "Search", "GetExpiration", "fatal"})
         => /\ data' = data
            /\ locks' = locks
            /\ expiries' = expiries
            /\ channels' = channels
            /\ ~crashed']_vars

\* the rules of key validation in their order, each with whether the key
\* breaks it and the reason reported: the length bounds, the character set
\* (of patterns or of exact keys), the namespace prefix, a non-empty first
\* segment after the prefix, no empty segment
KeyRules(key, allowPattern) ==
    LET parts == Split(key, separator) IN
    << [broken |-> Len(key) < MinKeyLength \/ Len(key) > MaxKeyLength,
        reason |-> "ErrInvalidKeyLength"],
       [broken |-> ~AllIn(key, IF allowPattern THEN validKeyPatternChars ELSE validKeyChars),
        reason |-> IF allowPattern THEN "ErrInvalidKeyPatternChars" ELSE "ErrInvalidKeyChars"],
       [broken |-> ~HasPrefix(key, prefix \o separator),
        reason |-> "ErrInvalidKeyPrefix"],
       [broken |-> Len(parts) < 2 \/ parts[2] = <<>>,
        reason |-> "ErrInvalidKeySuffix"],
       [broken |-> \E i \in 1..Len(parts) : parts[i] = <<>>,
        reason |-> "ErrEmptyKeyPart"] >>

\* the same, the fourth rule read as: some segment after the prefix is non-empty
KeyRulesAnySegment(key, allowPattern) ==
    LET parts == Split(key, separator) IN
    [KeyRules(key, allowPattern) EXCEPT
        ![4].broken = ~\E i \in 2..Len(parts) : parts[i] # <<>>]

\* the reason of the earliest broken rule, "nil" when none is broken
FirstBroken(rules) ==
    IF \A i \in 1..Len(rules) : ~rules[i].broken THEN "nil"
    ELSE rules[CHOOSE i \in 1..Len(rules) :
                 rules[i].broken /\ \A j \in 1..(i - 1) : ~rules[j].broken].reason

C29_ExpiredIsAbsent ==
    [][(backend = "memory" /\ TTLElapsed(last'.id))
         => /\ last'.op = "Create" => last'.err = "nil"
            /\ last'.op \in {"Update", "Delete"} => last'.err = "ErrNotFound"
            /\ last'.op = "AtomicIncrement" => last'.err = "nil" /\ last'.val.n = 1]_vars

\* C30: in the in-process backend every key with an expiry record has a stored
\* value, so an entity re-created after Delete carries no TTL of the entity
\* before it.
C30_ExpiryHasValue ==
    backend = "memory" => DOMAIN expiries \subseteq DOMAIN data

\* C31: the key codec of the networked backend is injective on accepted
\* identifiers: two distinct identifiers, of the same or of different variants,
\* that both pass identifierToKey never map to the same physical key.
C31_CodecInjective ==
    [][(/\ last.op = "identifierToKey" /\ last'.op = "identifierToKey"
        /\ last.val.t = "key" /\ last'.val.t = "key"
        /\ last.err = "nil" /\ last'.err = "nil"
        /\ last.id # last'.id)
         => last.val.n # last'.val.n]_vars

\* C32: for every physical key that passes exact-mode validation,
\* identifierToKey(keyToIdentifier(key)) is the key: decoding drops and merges
\* no segment.
C32_KeyRoundTrip ==
    (last.op = "identifierToKey" /\ last.val.t = "resolved")
        => (last.err = "nil" /\ last.val.n = last.val.from)

\* C33: in the networked backend lock records never collide with entity keys:
\* no Create, Read, Update, Delete or AtomicIncrement on an accepted identifier
\* creates, removes or overwrites the lock record of any identifier.
C33_LockRecordsApart ==
    [][(backend = "redis"
        /\ last'.op \in {"Create", "Read", "Update", "Delete", "AtomicIncrement"})
         => \A x \in LockLikeIds :
               LET lockKey == LockKey(identifierToKey(x, FALSE).key) IN
               /\ Exists(store', lockKey) <=> Exists(store, lockKey)
               /\ Exists(store, lockKey) => store'[lockKey] = store[lockKey]]_vars

\* C34: while a caller holds an unexpired lock on an identifier (its
\* AcquireLock returned true, the TTL has not elapsed, it has not called
\* ReleaseLock), no other caller's AcquireLock on the identifier returns true,
\* whatever the other callers acquire and release: no two callers hold the
\* lock at once.
C34_HolderExcludesOthers ==
    \A i \in Ids : \A g, h \in LiveHolders(i, now) : g.proc = h.proc

\* C35: in the networked backend, of several concurrent Create calls on an
\* identifier that has no entry at most one succeeds: the existence check and
\* the write are not separable by another caller's write, so a Create that
\* succeeds has written to a key that had no entry.
C35_CreateIsAtomic ==
    [][(backend = "redis" /\ last'.op = "Create" /\ last'.err = "nil")
         => ~Exists(store, identifierToKey(last'.id, FALSE).key)]_vars

\* C36: in the in-process backend, under every interleaving of Subscribe,
\* Publish, context cancellation (cleanup routine) and Close, every sink in
\* the channel registry is open, close() is never applied to a sink that is
\* closed already, and Publish never sends on a closed sink (no panic).
C36_SinksSafe ==
    [][backend = "memory" =>
         /\ ~crashed'
         /\ \A s \in DOMAIN sinks' : IsRegistered(s)' => ~sinks'[s].closed
         /\ last'.op = "Close" => \A s \in AllRegistered : ~sinks[s].closed
         /\ last'.op = "cleanup" =>
                (IsRegistered(last'.val.n) => ~sinks[last'.val.n].closed)]_vars

\* C36 witness: a Publish on a channel of which one sink was closed and taken
\* out of the registry, and another, registered and open, got the message
C36_Witness ==
    /\ backend = "memory"
    /\ ~crashed
    /\ last.op = "Publish"
    /\ \E gone, open \in DOMAIN sinks :
         /\ sinks[gone].channel \in last.ids
         /\ sinks[open].channel \in last.ids
         /\ sinks[gone].closed /\ ~IsRegistered(gone)
         /\ ~sinks[open].closed /\ IsRegistered(open)
         /\ sinks[open].got # <<>>
         /\ sinks[open].got[Len(sinks[open].got)] = last.val.n

====
